---------------------------- MODULE Spec2Model ----------------------------
(***************************************************************************)
(* A model of DSPyBridge's retrieval-augmented generation endpoint         *)
(* (app/api/retrieval.py): the document store, the lexical retriever and   *)
(* the three request handlers built on them.                               *)
(*                                                                         *)
(* A text is a sequence of one-character strings, so that lower(), split() *)
(* and strip() are computed character by character as Python computes them.*)
(***************************************************************************)
EXTENDS Integers, Sequences, FiniteSets, TLC

VARIABLES
    fs,             \* the docs directory: the entries glob("*.txt") yields, in order
    dirExists,      \* whether the docs directory exists
    is_configured,  \* config.is_configured (an API key is set)
    configured,     \* the module global _configured
    retriever,      \* the module global _retriever: None or [documents |-> ...]
    rag_module,     \* the module global _rag_module: None or "RAGModule"
    request,        \* the request being served last
    response,       \* the outcome of the last request
    dspy_service,   \* services/dspy_service.py: the DSPyService instance
    optimized_qa,   \* api/finetuning.py: the module global optimized_qa
    train_data,     \* the CSV files of the train-data directory
    qa,             \* api/qa.py: _configured, _question_module, _reasoning_module
    agent,          \* api/agent.py: _configured, _agent_module
    suspended       \* the requests whose handler is suspended at an await

(* The state of the modules other than api/retrieval.py. *)
other_modules == <<dspy_service, optimized_qa, train_data, qa, agent, suspended>>

vars == <<fs, dirExists, is_configured, configured, retriever, rag_module,
          request, response, other_modules>>

-----------------------------------------------------------------------------
(* Bounds of the model. *)

MaxFiles == 3       \* files in the docs directory (retrieval specification)
MaxScoreFiles == 1  \* files in the docs directory (scoring specification)
MaxServerFiles == 2 \* files in the docs directory (endpoint specification)
MaxK == 4           \* largest top_k drawn
MaxNegK == 2        \* top_k is drawn from -MaxNegK..MaxK
MaxRepeatFiles == 2 \* files in the docs directory (repeated-retrieval specification)
MaxCalls == 3       \* retrieve calls in a row (repeated-retrieval specification)
MaxSuspended == 2   \* requests suspended at an await at one time
LongTextLen == 520  \* characters of the long file text (endpoint specification)

-----------------------------------------------------------------------------
(* Text: str.lower, str.split, str.strip, str.join, slicing. *)

(* A text is a sequence of characters, each one of the code points 1 to 255
   (Latin-1).

   The characters of them str.split() and str.strip() take for whitespace:
   space, tab, newline, carriage return, form feed, and, written as the
   characters themselves, the code points 0B, 1C, 1D, 1E, 1F, 85 and A0. *)
Whitespace ==
    {" ", "\t", "\n", "\r", "\f", "", "", "", "", "", "", " "}

UpperChars == <<"A", "B", "C", "D", "E", "F", "G", "H", "I", "J", "K", "L", "M",
                "N", "O", "P", "Q", "R", "S", "T", "U", "V", "W", "X", "Y", "Z",
                "À", "Á", "Â", "Ã", "Ä", "Å", "Æ", "Ç", "È", "É", "Ê", "Ë", "Ì", "Í", "Î",
                "Ï", "Ð", "Ñ", "Ò", "Ó", "Ô", "Õ", "Ö", "Ø", "Ù", "Ú", "Û", "Ü", "Ý", "Þ">>
LowerChars == <<"a", "b", "c", "d", "e", "f", "g", "h", "i", "j", "k", "l", "m",
                "n", "o", "p", "q", "r", "s", "t", "u", "v", "w", "x", "y", "z",
                "à", "á", "â", "ã", "ä", "å", "æ", "ç", "è", "é", "ê", "ë", "ì", "í", "î",
                "ï", "ð", "ñ", "ò", "ó", "ô", "õ", "ö", "ø", "ù", "ú", "û", "ü", "ý", "þ">>

(* str.lower(): the lowercase of each uppercase letter, the letters of
   Latin-1 after those of ASCII; every other character is left as it is. *)
LowerOf ==
    [c \in {UpperChars[i] : i \in 1..Len(UpperChars)} |->
        LowerChars[CHOOSE i \in 1..Len(UpperChars) : UpperChars[i] = c]]

LowerChar(c) == IF c \in DOMAIN LowerOf THEN LowerOf[c] ELSE c

Lower(s) == [i \in 1..Len(s) |-> LowerChar(s[i])]

(* str.split() with no argument: the maximal runs of non-whitespace.
   A word starts where a non-whitespace character follows whitespace
   or the start of the text, and runs up to the next whitespace or the end. *)
WordStarts(s) ==
    {i \in 1..Len(s) : s[i] \notin Whitespace /\ (i = 1 \/ s[i - 1] \in Whitespace)}

WordEnd(s, i) ==
    CHOOSE j \in i..Len(s) :
        /\ (j = Len(s) \/ s[j + 1] \in Whitespace)
        /\ \A m \in i..j : s[m] \notin Whitespace

(* set(s.split()): the words of s, duplicates collapsed. *)
SplitSet(s) == {SubSeq(s, i, WordEnd(s, i)) : i \in WordStarts(s)}

(* str.strip(): leading and trailing whitespace removed. *)
Strip(s) ==
    LET n == Len(s)
    IN  IF \A i \in 1..n : s[i] \in Whitespace THEN <<>>
        ELSE LET lead == CHOOSE k \in 0..n :
                             /\ \A m \in 1..k : s[m] \in Whitespace
                             /\ s[k + 1] \notin Whitespace
                 trail == CHOOSE k \in 0..n :
                              /\ \A m \in 1..k : s[n + 1 - m] \in Whitespace
                              /\ s[n - k] \notin Whitespace
             IN  SubSeq(s, lead + 1, n - trail)

(* A faulty variant of Join: the parts in reverse order. *)
RECURSIVE JoinReversed(_, _)
JoinReversed(sep, parts) ==
    IF parts = <<>> THEN <<>>
    ELSE IF Len(parts) = 1 THEN parts[1]
    ELSE JoinReversed(sep, Tail(parts)) \o sep \o parts[1]

(* sep.join(parts) *)
RECURSIVE Join(_, _)
Join(sep, parts) ==
    IF parts = <<>> THEN <<>>
    ELSE IF Len(parts) = 1 THEN parts[1]
    ELSE parts[1] \o sep \o Join(sep, Tail(parts))

Min(a, b) == IF a <= b THEN a ELSE b
Max(a, b) == IF a >= b THEN a ELSE b

(* seq[:n], negative n counting from the end as Python slices do. *)
SliceTo(seq, n) ==
    IF n >= 0 THEN SubSeq(seq, 1, Min(n, Len(seq)))
    ELSE SubSeq(seq, 1, Max(Len(seq) + n, 0))

-----------------------------------------------------------------------------
(* Scores: the float intersection / union, kept exact as a reduced         *)
(* fraction <<numerator, denominator>>.                                    *)

RECURSIVE GCD(_, _)
GCD(a, b) == IF b = 0 THEN a ELSE GCD(b, a % b)

TrueDiv(a, b) == LET g == GCD(a, b) IN <<a \div g, b \div g>>

Zero == <<0, 1>>

Less(x, y) == x[1] * y[2] < y[1] * x[2]

Positive(x) == Less(Zero, x)

-----------------------------------------------------------------------------
(* The document store: DocumentRetriever.__init__ and load_documents.      *)

sample_docs ==
    <<<<"D", "S", "P", "y", " ", "i", "s", " ", "a", " ", "f", "r", "a", "m", "e", "w", "o", "r",
      "k", " ", "f", "o", "r", " ", "p", "r", "o", "g", "r", "a", "m", "m", "i", "n", "g", " ",
      "l", "a", "n", "g", "u", "a", "g", "e", " ", "m", "o", "d", "e", "l", "s", ".", " ", "I",
      "t", " ", "p", "r", "o", "v", "i", "d", "e", "s", " ", "s", "t", "r", "u", "c", "t", "u",
      "r", "e", "d", " ", "w", "a", "y", "s", " ", "t", "o", " ", "b", "u", "i", "l", "d", " ",
      "A", "I", " ", "a", "p", "p", "l", "i", "c", "a", "t", "i", "o", "n", "s", ".">>,
      <<"R", "e", "A", "c", "t", " ", "a", "g", "e", "n", "t", "s", " ", "c", "o", "m", "b", "i",
      "n", "e", " ", "r", "e", "a", "s", "o", "n", "i", "n", "g", " ", "a", "n", "d", " ", "a",
      "c", "t", "i", "n", "g", " ", "t", "o", " ", "s", "o", "l", "v", "e", " ", "c", "o", "m",
      "p", "l", "e", "x", " ", "t", "a", "s", "k", "s", " ", "u", "s", "i", "n", "g", " ", "t",
      "o", "o", "l", "s", " ", "a", "n", "d", " ", "e", "x", "t", "e", "r", "n", "a", "l", " ",
      "i", "n", "f", "o", "r", "m", "a", "t", "i", "o", "n", ".">>,
      <<"C", "h", "a", "i", "n", " ", "o", "f", " ", "T", "h", "o", "u", "g", "h", "t", " ", "p",
      "r", "o", "m", "p", "t", "i", "n", "g", " ", "h", "e", "l", "p", "s", " ", "m", "o", "d",
      "e", "l", "s", " ", "b", "r", "e", "a", "k", " ", "d", "o", "w", "n", " ", "c", "o", "m",
      "p", "l", "e", "x", " ", "p", "r", "o", "b", "l", "e", "m", "s", " ", "i", "n", "t", "o",
      " ", "s", "t", "e", "p", "-", "b", "y", "-", "s", "t", "e", "p", " ", "r", "e", "a", "s",
      "o", "n", "i", "n", "g", ".">>>>

(* A directory entry: a file name, whether open/read succeeds, its text.   *)
Entry(name, readable, content) ==
    [name |-> name, readable |-> readable, content |-> content]

(* f"[{txt_file.name}] {content}" *)
TaggedDocument(name, content) == <<"[">> \o name \o <<"]", " ">> \o content

(* A faulty variant of LoadFile: an unreadable file is not skipped, it
   costs the documents loaded before it. *)
LoadFileDropsOnError(documents, entry) ==
    IF ~entry.readable THEN <<>>
    ELSE LET content == Strip(entry.content)
         IN  IF content # <<>>
             THEN Append(documents, TaggedDocument(entry.name, content))
             ELSE documents

(* One pass of the for loop's body over a file: the documents list after it.
   An unreadable file is caught, logged and skipped; a file whose stripped
   text is empty is skipped. *)
LoadFile(documents, entry) ==
    IF ~entry.readable THEN documents
    ELSE LET content == Strip(entry.content)
         IN  IF content # <<>>
             THEN Append(documents, TaggedDocument(entry.name, content))
             ELSE documents

(* The for loop over glob("*.txt"), starting from documents. *)
RECURSIVE LoadFiles(_, _)
LoadFiles(documents, listing) ==
    IF listing = <<>> THEN documents
    ELSE LoadFiles(LoadFile(documents, Head(listing)), Tail(listing))

(* What can go wrong outside the per-file try block: mkdir raising when the
   directory is absent, or the enumeration raising after it has yielded
   `after` entries. *)
NoFault == [kind |-> "none", after |-> 0]
MkdirFault == [kind |-> "mkdir", after |-> 0]
GlobFault(i) == [kind |-> "glob", after |-> i]

Faults(exists, listing) ==
    {NoFault} \cup (IF exists THEN {} ELSE {MkdirFault})
              \cup {GlobFault(i) : i \in 0..Len(listing)}

(* Faulty variants of load_documents: one that forgets the placeholder
   substitution, one that puts the prior corpus back when the rebuild aborts. *)
load_documents_no_samples(documents, exists, listing, fault) ==
    IF ~exists /\ fault.kind = "mkdir"
    THEN [documents |-> documents, raised |-> TRUE, dirExists |-> FALSE]
    ELSE IF fault.kind = "glob"
    THEN [documents |-> LoadFiles(<<>>, SubSeq(listing, 1, fault.after)),
          raised |-> TRUE, dirExists |-> TRUE]
    ELSE [documents |-> LoadFiles(<<>>, listing), raised |-> FALSE, dirExists |-> TRUE]

load_documents_swap(documents, exists, listing, fault) ==
    IF ~exists /\ fault.kind = "mkdir"
    THEN [documents |-> documents, raised |-> TRUE, dirExists |-> FALSE]
    ELSE IF fault.kind = "glob"
    THEN [documents |-> documents, raised |-> TRUE, dirExists |-> TRUE]
    ELSE LET loaded == LoadFiles(<<>>, listing)
         IN  [documents |-> IF loaded = <<>> THEN sample_docs ELSE loaded,
              raised |-> FALSE, dirExists |-> TRUE]

(* A faulty variant of load_documents: the rebuild appends to the corpus
   the retriever already holds instead of starting from an empty list. *)
load_documents_merge(documents, exists, listing, fault) ==
    IF ~exists /\ fault.kind = "mkdir"
    THEN [documents |-> documents, raised |-> TRUE, dirExists |-> FALSE]
    ELSE IF fault.kind = "glob"
    THEN [documents |-> LoadFiles(documents, SubSeq(listing, 1, fault.after)),
          raised |-> TRUE, dirExists |-> TRUE]
    ELSE LET loaded == LoadFiles(documents, listing)
         IN  [documents |-> IF loaded = <<>> THEN sample_docs ELSE loaded,
              raised |-> FALSE, dirExists |-> TRUE]

(* load_documents on a retriever holding `documents`: the documents it
   holds afterwards, whether the call raised, whether the directory exists. *)
load_documents(documents, exists, listing, fault) ==
    IF ~exists /\ fault.kind = "mkdir"
    THEN [documents |-> documents, raised |-> TRUE, dirExists |-> FALSE]
    ELSE IF fault.kind = "glob"
    THEN [documents |-> LoadFiles(<<>>, SubSeq(listing, 1, fault.after)),
          raised |-> TRUE, dirExists |-> TRUE]
    ELSE LET loaded == LoadFiles(<<>>, listing)
         IN  [documents |-> IF loaded = <<>> THEN sample_docs ELSE loaded,
              raised |-> FALSE, dirExists |-> TRUE]

-----------------------------------------------------------------------------
(* The lexical retriever: DocumentRetriever.retrieve.                      *)

(* A faulty variant of WordSet: the words compared case-sensitively. *)
WordSetCaseSensitive(text) == SplitSet(text)

(* set(text.lower().split()) *)
WordSet(text) == SplitSet(Lower(text))

(* A faulty variant of Score: the share of the query's words the document
   has, instead of the intersection over the union. *)
ScoreOverQuery(query_words, doc) ==
    LET doc_words == WordSet(doc)
        intersection == Cardinality(query_words \cap doc_words)
    IN  IF query_words # {} THEN TrueDiv(intersection, Cardinality(query_words)) ELSE Zero

(* A faulty variant of Score: add-one smoothing of the ratio, which gives a
   document a positive score whatever the query. *)
ScoreSmoothed(query_words, doc) ==
    LET doc_words == WordSet(doc)
        intersection == Cardinality(query_words \cap doc_words)
        union == Cardinality(query_words \cup doc_words)
    IN  TrueDiv(intersection + 1, union + 1)

(* The loop body: the score of one document against the query's words. *)
Score(query_words, doc) ==
    LET doc_words == WordSet(doc)
        intersection == Cardinality(query_words \cap doc_words)
        union == Cardinality(query_words \cup doc_words)
    IN  IF union > 0 THEN TrueDiv(intersection, union) ELSE Zero

(* A faulty variant of InsertDesc: an unstable sort, an element going before
   the elements of equal score. *)
InsertDescUnstable(sorted, x) ==
    LET before == {i \in 1..Len(sorted) : Less(x[2], sorted[i][2])}
        n == Cardinality(before)
    IN  SubSeq(sorted, 1, n) \o <<x>> \o SubSeq(sorted, n + 1, Len(sorted))

(* scores.sort(key=lambda x: x[1], reverse=True): a stable sort, so an
   element goes after every element whose score is not below its own. *)
InsertDesc(sorted, x) ==
    LET before == {i \in 1..Len(sorted) : ~Less(sorted[i][2], x[2])}
        n == Cardinality(before)
    IN  SubSeq(sorted, 1, n) \o <<x>> \o SubSeq(sorted, n + 1, Len(sorted))

RECURSIVE SortDesc(_, _)
SortDesc(sorted, scores) ==
    IF scores = <<>> THEN sorted
    ELSE SortDesc(InsertDesc(sorted, Head(scores)), Tail(scores))

(* A faulty variant of PositiveOnly: the score > 0 filter left out. *)
PositiveOnlyKeepAll(scores) == scores

(* [x for x in seq if score > 0] over the (doc, score) pairs. *)
RECURSIVE PositiveOnly(_)
PositiveOnly(scores) ==
    IF scores = <<>> THEN <<>>
    ELSE IF Positive(Head(scores)[2])
         THEN <<Head(scores)>> \o PositiveOnly(Tail(scores))
         ELSE PositiveOnly(Tail(scores))

(* The top of the sorted list: scores[:top_k], then the score > 0 filter. *)
TopK(sorted, top_k) == PositiveOnly(SliceTo(sorted, top_k))

(* A faulty variant of retrieve: with no documents it ranks the placeholder
   documents instead of returning nothing. *)
retrieve_over_samples(documents, query, top_k) ==
    LET corpus == IF documents = <<>> THEN sample_docs ELSE documents
        query_words == WordSet(query)
        scores == [i \in 1..Len(corpus) |->
                      <<corpus[i], Score(query_words, corpus[i])>>]
        top == TopK(SortDesc(<<>>, scores), top_k)
    IN  [top_docs |-> [i \in 1..Len(top) |-> top[i][1]],
         top_scores |-> [i \in 1..Len(top) |-> top[i][2]]]

(* retrieve sorting self.documents along with its own list. *)
retrieve_lists_sorting_documents(documents, query, top_k) ==
    LET query_words == WordSet(query)
        scores == [i \in 1..Len(documents) |->
                      <<documents[i], Score(query_words, documents[i])>>]
        sorted == SortDesc(<<>>, scores)
    IN  [documents |-> [i \in 1..Len(sorted) |-> sorted[i][1]], scores |-> sorted]

(* The two list objects a retrieve call works on, after its loop and its
   sort: documents is self.documents, which the call only reads, and scores
   is the list the call creates, fills with one (doc, score) pair per
   document and sorts in place. *)
retrieve_lists(documents, query, top_k) ==
    LET query_words == WordSet(query)
        created == [documents |-> documents, scores |-> <<>>]
        filled == [created EXCEPT !.scores =
                      [i \in 1..Len(created.documents) |->
                          <<created.documents[i],
                            Score(query_words, created.documents[i])>>]]
    IN  [filled EXCEPT !.scores = SortDesc(<<>>, @)]

retrieve(documents, query, top_k) ==
    IF documents = <<>>
    THEN [top_docs |-> <<>>, top_scores |-> <<>>]
    ELSE LET top == TopK(retrieve_lists(documents, query, top_k).scores, top_k)
         IN  [top_docs |-> [i \in 1..Len(top) |-> top[i][1]],
              top_scores |-> [i \in 1..Len(top) |-> top[i][2]]]

-----------------------------------------------------------------------------
(* The inputs the model draws: file names, file texts and query texts.     *)

FileNames == <<
    <<"a", ".", "t", "x", "t">>,
    <<"b", ".", "t", "x", "t">>,
    <<"c", ".", "t", "x", "t">>,
    <<"d", ".", "t", "x", "t">>,
    <<"e", ".", "t", "x", "t">> >>

TextCatSat ==
    <<"t", "h", "e", " ", "c", "a", "t", " ", "s", "a", "t", " ", "o", "n", " ", "t", "h", "e",
      " ", "m", "a", "t">>

TextDogs ==
    <<"d", "o", "g", "s", " ", "b", "a", "r", "k", " ", "l", "o", "u", "d", "l", "y">>

QueryCatMat ==
    <<"c", "a", "t", " ", "m", "a", "t">>

QueryDogs ==
    <<"d", "o", "g", "s">>

QuerySpaces ==
    <<" ", "\r", "">>

(* File texts as f.read() returns them: open(txt_file, "r") translates
   every line ending to "\n", so a text read from a file holds no carriage
   return, while a query can. *)
Contents ==
    {TextCatSat, TextDogs, <<"\f", "C", "a", "t", "\t", "M", "A", "T", "\n">>,
     <<" ", "", " ", "\n">>}

Queries ==
    {QueryCatMat,
     <<"M", "A", "T", " ", "\r", "c", "a", "t", "", "c", "a", "t">>,
     QueryDogs,
     <<"D", "S", "P", "y", " ", "f", "r", "a", "m", "e", "w", "o", "r", "k">>,
     <<"z", "e", "b", "r", "a">>,
     <<>>}

(* What one file of the directory can be: unreadable, or readable with a text. *)
FileStates == {[readable |-> FALSE, content |-> <<>>]}
              \cup {[readable |-> TRUE, content |-> c] : c \in Contents}

(* The orders glob can yield m of the first n file names in: the order is
   the file system's, not the names' and not the files' creation order. *)
NameOrders(m, n) ==
    {p \in [1..m -> 1..n] : \A i, j \in 1..m : i # j => p[i] # p[j]}

(* The directory listings of at most n files, each in one of the given
   states, as glob enumerates them. *)
Listings(n, states) ==
    UNION {{[i \in 1..m |-> Entry(FileNames[p[i]], f[i].readable, f[i].content)] :
                p \in NameOrders(m, n), f \in [1..m -> states]} : m \in 0..n}

KValues == (0 - MaxNegK)..MaxK

None == [kind |-> "none", op |-> "none"]

(* The other modules are not loaded in a specification of the retriever or
   of the RAG endpoint. *)
OtherModulesAbsent ==
    /\ dspy_service = None
    /\ optimized_qa = None
    /\ train_data = [exists |-> TRUE, files |-> <<>>]
    /\ qa = None
    /\ agent = None
    /\ suspended = <<>>

-----------------------------------------------------------------------------
(* The retrieval specification: a retriever constructed over a directory,  *)
(* then retrieve called with any query and any top_k.                      *)

RetrieverOver(listing) ==
    /\ fs = listing
    /\ dirExists = TRUE
    /\ is_configured = FALSE
    /\ configured = FALSE
    /\ retriever = [documents |-> load_documents(<<>>, TRUE, listing, NoFault).documents]
    /\ rag_module = None
    /\ request = None
    /\ response = None
    /\ OtherModulesAbsent

InitRetrieve ==
    \E listing \in Listings(MaxFiles, {f \in FileStates : f.readable
                                                         /\ Strip(f.content) # <<>>}) :
        RetrieverOver(listing)

Retrieve(query, top_k) ==
    /\ response = None
    /\ request' = [op |-> "retrieve", query |-> query, top_k |-> top_k]
    /\ response' = [kind |-> "retrieved", op |-> "retrieve"]
                       @@ retrieve(retriever.documents, query, top_k)
    /\ UNCHANGED <<fs, dirExists, is_configured, configured, retriever, rag_module, other_modules>>

NextRetrieve == \E query \in Queries, top_k \in KValues : Retrieve(query, top_k)

SpecRetrieve == InitRetrieve /\ [][NextRetrieve]_vars

(* The scoring specification: the same, over directories of fewer files. *)
InitScore == \E listing \in Listings(MaxScoreFiles, FileStates) : RetrieverOver(listing)

SpecScore == InitScore /\ [][NextRetrieve]_vars

(* The self-retrieval specification: retrieve called with any query of the
   pool, or with the text of a document of the corpus as the query. *)
RetrieveQuery == \E query \in Queries, top_k \in KValues : Retrieve(query, top_k)

RetrieveDocument ==
    \E i \in 1..Len(retriever.documents), top_k \in KValues :
        Retrieve(retriever.documents[i], top_k)

NextSelf == RetrieveQuery \/ RetrieveDocument

SpecSelf == InitScore /\ [][NextSelf]_vars

(* The repeated-retrieval specification: up to MaxCalls retrieve calls, one
   after the other, on the same retriever. self.documents after a call is
   the documents list as the call's statements leave it. *)
CorpusAfterRetrieve(documents, query, top_k) ==
    retrieve_lists(documents, query, top_k).documents

Calls == IF request.op = "retrieve" THEN request.call ELSE 0

RetrieveCall(query, top_k) ==
    /\ Calls < MaxCalls
    /\ request' = [op |-> "retrieve", query |-> query, top_k |-> top_k,
                   call |-> Calls + 1]
    /\ response' = [kind |-> "retrieved", op |-> "retrieve"]
                       @@ retrieve(retriever.documents, query, top_k)
    /\ retriever' = [documents |->
                         CorpusAfterRetrieve(retriever.documents, query, top_k)]
    /\ UNCHANGED <<fs, dirExists, is_configured, configured, rag_module, other_modules>>

InitRepeat == \E listing \in Listings(MaxRepeatFiles, FileStates) : RetrieverOver(listing)

NextRepeat ==
    \E query \in {QueryCatMat, QueryDogs, <<>>}, top_k \in {1, MaxK} :
        RetrieveCall(query, top_k)

SpecRepeat == InitRepeat /\ [][NextRepeat]_vars

-----------------------------------------------------------------------------
(* The RAG endpoint: _ensure_configured, rag_query, reload_documents and   *)
(* rag_status over the module globals.                                     *)

(* The request model's bound on top_k: Field(default=3, ge=1, le=10). *)
TopKMin == 1
TopKMax == 10

NoRelevantDocuments ==
    <<"N", "o", " ", "r", "e", "l", "e", "v", "a", "n", "t", " ", "d", "o", "c", "u", "m", "e",
      "n", "t", "s", " ", "f", "o", "u", "n", "d", " ", "f", "o", "r", " ", "y", "o", "u", "r",
      " ", "q", "u", "e", "r", "y", ".">>

BasedOnPrefix ==
    <<"B", "a", "s", "e", "d", " ", "o", "n", " ", "t", "h", "e", " ", "r", "e", "t", "r", "i",
      "e", "v", "e", "d", " ", "d", "o", "c", "u", "m", "e", "n", "t", "s", ":", " ">>

Ellipsis ==
    <<".", ".", ".">>

(* context[:500] in the fallback answer. *)
ContextPreview == 500

ShortFile == [readable |-> TRUE, content |-> TextCatSat]

(* The files the preview specification writes: a long one, of "cat" and one
   long word, or a short one first, short ones after it. *)
PreviewFilesAt(i) ==
    IF i = 1
    THEN {[readable |-> TRUE,
           content |-> [j \in 1..LongTextLen |->
                           IF j <= 4 THEN <<"c", "a", "t", " ">>[j] ELSE "x"]],
          ShortFile}
    ELSE {ShortFile}

ServerQueries == {QueryCatMat, QuerySpaces, <<>>}

ServerKValues == {0, 1, 2, 11}

BackendUnused == [raises |-> FALSE, text |-> <<>>]

RAGModule == [kind |-> "RAGModule"]

(* Request validation by the request model, before the handler runs: the
   query and documents fields are required, top_k must lie in its bound. *)
ValidRequest(req) ==
    req.has_query /\ req.has_documents /\ req.top_k \in TopKMin..TopKMax

(* The request body: query, documents and top_k, each required field given
   or missing, and what the backend does if the handler calls it. *)
RagRequest(has_query, query, has_documents, documents, top_k, backend) ==
    [op |-> "rag_query", has_query |-> has_query, query |-> query,
     has_documents |-> has_documents, documents |-> documents, top_k |-> top_k,
     backend |-> backend]

(* The responses: a validation error of the request model, a normal
   response, an HTTPException, an exception that escapes the handler. *)
ValidationError(op) == [kind |-> "validation_error", op |-> op, status |-> 422]

HTTPException(op, status_code, detail, logged) ==
    [kind |-> "http_error", op |-> op, status |-> status_code, detail |-> detail,
     logged |-> logged]

RawException(op) == [kind |-> "exception", op |-> op]

RAGResponse(query, text, retrieved_docs, context_used) ==
    [kind |-> "ok", op |-> "rag_query", query |-> query, response |-> text,
     retrieved_docs |-> retrieved_docs, context_used |-> context_used]

(* _ensure_configured: the globals after the call and whether it raised.
   The retriever is constructed (and loads) first; the constructor raising
   leaves every global as it was. *)
Globals(c, r, m, exists, raised) ==
    [configured |-> c, retriever |-> r, rag_module |-> m, dirExists |-> exists,
     raised |-> raised]

(* A faulty variant of _ensure_configured: the initialisation is run again
   while a configured service has no RAG module. *)
ensure_configured_retrying(fault, init_ok) ==
    IF configured /\ ~(is_configured /\ rag_module = None)
    THEN Globals(configured, retriever, rag_module, dirExists, FALSE)
    ELSE LET loaded == load_documents(<<>>, dirExists, fs, fault)
             constructed == [documents |-> loaded.documents]
         IN  IF loaded.raised
             THEN Globals(configured, retriever, rag_module, loaded.dirExists, TRUE)
             ELSE IF ~is_configured
             THEN Globals(TRUE, constructed, rag_module, loaded.dirExists, FALSE)
             ELSE IF init_ok
             THEN Globals(TRUE, constructed, RAGModule, loaded.dirExists, FALSE)
             ELSE Globals(TRUE, constructed, rag_module, loaded.dirExists, FALSE)

ensure_configured(fault, init_ok) ==
    IF configured
    THEN Globals(configured, retriever, rag_module, dirExists, FALSE)
    ELSE LET loaded == load_documents(<<>>, dirExists, fs, fault)
             constructed == [documents |-> loaded.documents]
         IN  IF loaded.raised
             THEN Globals(configured, retriever, rag_module, loaded.dirExists, TRUE)
             ELSE IF ~is_configured
             THEN Globals(TRUE, constructed, rag_module, loaded.dirExists, FALSE)
             ELSE IF init_ok
             THEN Globals(TRUE, constructed, RAGModule, loaded.dirExists, FALSE)
             ELSE Globals(TRUE, constructed, rag_module, loaded.dirExists, FALSE)

(* The inputs _ensure_configured can meet: nothing to draw once configured. *)
EnsureFaults == IF configured THEN {NoFault} ELSE Faults(dirExists, fs)
EnsureInits == IF ~configured /\ is_configured THEN BOOLEAN ELSE {TRUE}

SetGlobals(g) ==
    /\ configured' = g.configured
    /\ retriever' = g.retriever
    /\ rag_module' = g.rag_module
    /\ dirExists' = g.dirExists

(* A faulty variant of FallbackAnswer: the whole context, not cut. *)
FallbackAnswerWhole(context) == BasedOnPrefix \o context \o Ellipsis

(* f"Based on the retrieved documents: {context[:500]}..." *)
FallbackAnswer(context) ==
    BasedOnPrefix \o SliceTo(context, ContextPreview) \o Ellipsis

(* The body of rag_query after _ensure_configured, over the globals g. *)
rag_query(req, g) ==
    IF g.retriever = None
    THEN HTTPException("rag_query", 500, "Document retriever not initialized", FALSE)
    ELSE LET found == retrieve(g.retriever.documents, req.query, req.top_k)
             context == Join(<<"\n", "\n">>, found.top_docs)
         IN  IF found.top_docs = <<>>
             THEN RAGResponse(req.query, NoRelevantDocuments, <<>>, <<>>)
             ELSE IF is_configured /\ g.rag_module # None
             THEN IF req.backend.raises
                  THEN HTTPException("rag_query", 500, "RAG processing failed", TRUE)
                  ELSE RAGResponse(req.query, req.backend.text, found.top_docs, context)
             ELSE RAGResponse(req.query, FallbackAnswer(context), found.top_docs, context)

(* Whether rag_query over the globals g gets as far as calling the backend. *)
CallsBackend(req, g) ==
    /\ g.retriever # None
    /\ is_configured
    /\ g.rag_module # None
    /\ retrieve(g.retriever.documents, req.query, req.top_k).top_docs # <<>>

(* The backend outcomes rag_query can meet over the globals g: nothing to
   draw unless the backend is called. *)
BackendChoices(query, top_k, g) ==
    IF ~g.raised /\ CallsBackend(RagRequest(TRUE, query, TRUE, <<>>, top_k, BackendUnused), g)
    THEN {[raises |-> TRUE, text |-> <<>>]}
         \cup {[raises |-> FALSE, text |-> a] : a \in {<<"y", "e", "s">>, <<"n", "o">>}}
    ELSE {BackendUnused}

RagQuery(query, documents, top_k, fault, init_ok, backend) ==
    LET req == RagRequest(TRUE, query, TRUE, documents, top_k, backend)
        g == ensure_configured(fault, init_ok)
    IN  /\ ValidRequest(req)
        /\ request' = req
        /\ response' = IF g.raised THEN RawException("rag_query") ELSE rag_query(req, g)
        /\ SetGlobals(g)
        /\ UNCHANGED <<fs, is_configured, other_modules>>

(* A request the request model rejects never reaches the handler. *)
RagQueryRejected(has_query, query, has_documents, documents, top_k) ==
    LET req == RagRequest(has_query, query, has_documents, documents, top_k, BackendUnused)
    IN  /\ ~ValidRequest(req)
        /\ request' = req
        /\ response' = ValidationError("rag_query")
        /\ UNCHANGED <<fs, dirExists, is_configured, configured, retriever, rag_module, other_modules>>

(* reload_documents: _ensure_configured, then load_documents again. *)
ReloadFaults(g) ==
    IF g.raised \/ g.retriever = None THEN {NoFault} ELSE Faults(g.dirExists, fs)

ReloadDocuments(fault, init_ok, reload_fault) ==
    LET g == ensure_configured(fault, init_ok)
        loaded == load_documents(g.retriever.documents, g.dirExists, fs, reload_fault)
    IN  /\ request' = [op |-> "reload_documents", fault |-> reload_fault]
        /\ IF g.raised
           THEN /\ response' = RawException("reload_documents")
                /\ SetGlobals(g)
           ELSE IF g.retriever = None
           THEN /\ response' = HTTPException("reload_documents", 500,
                                             "Document retriever not initialized", FALSE)
                /\ SetGlobals(g)
           ELSE /\ response' =
                       IF loaded.raised
                       THEN HTTPException("reload_documents", 500,
                                          "Failed to reload documents", TRUE)
                       ELSE [kind |-> "ok", op |-> "reload_documents",
                             reloaded |-> Len(loaded.documents)]
                /\ configured' = g.configured
                /\ rag_module' = g.rag_module
                /\ retriever' = [documents |-> loaded.documents]
                /\ dirExists' = loaded.dirExists
        /\ UNCHANGED <<fs, is_configured, other_modules>>

(* rag_status: _ensure_configured, then a report of the globals. *)
RagStatus(fault, init_ok) ==
    LET g == ensure_configured(fault, init_ok)
    IN  /\ request' = [op |-> "rag_status"]
        /\ response' =
               IF g.raised THEN RawException("rag_status")
               ELSE [kind |-> "ok", op |-> "rag_status",
                     configured |-> is_configured,
                     rag_module_ready |-> g.rag_module # None,
                     document_count |-> IF g.retriever # None
                                        THEN Len(g.retriever.documents) ELSE 0]
        /\ SetGlobals(g)
        /\ UNCHANGED <<fs, is_configured, other_modules>>

(* The environment, between requests: a file of the docs directory is
   replaced where glob lists it or a new one is written, which glob may list
   anywhere among the others; a file is removed; or the empty directory is
   removed. *)
WriteFile(i, file, pos) ==
    /\ LET entry == Entry(FileNames[i], file.readable, file.content)
           held == {j \in 1..Len(fs) : fs[j].name = FileNames[i]}
       IN  IF held # {}
           THEN /\ pos \in held
                /\ fs' = [fs EXCEPT ![pos] = entry]
           ELSE /\ Len(fs) < MaxServerFiles
                /\ pos \in 1..(Len(fs) + 1)
                /\ fs' = SubSeq(fs, 1, pos - 1) \o <<entry>> \o SubSeq(fs, pos, Len(fs))
    /\ fs' # fs \/ ~dirExists
    /\ dirExists' = TRUE
    /\ UNCHANGED <<is_configured, configured, retriever, rag_module, request, response, other_modules>>

RemoveFile(pos) ==
    /\ pos \in 1..Len(fs)
    /\ fs' = SubSeq(fs, 1, pos - 1) \o SubSeq(fs, pos + 1, Len(fs))
    /\ UNCHANGED <<dirExists, is_configured, configured, retriever, rag_module,
                   request, response, other_modules>>

RemoveDirectory ==
    /\ dirExists
    /\ fs = <<>>
    /\ dirExists' = FALSE
    /\ UNCHANGED <<fs, is_configured, configured, retriever, rag_module,
                   request, response, other_modules>>

Init ==
    /\ fs = <<>>
    /\ dirExists \in BOOLEAN
    /\ is_configured \in BOOLEAN
    /\ configured = FALSE
    /\ retriever = None
    /\ rag_module = None
    /\ request = None
    /\ response = None
    /\ OtherModulesAbsent

(* The event loop runs a handler until it awaits or ends. The handlers of
   the RAG, question, agent and fine-tuning endpoints never await, so each
   runs to its end in one step; a handler that awaits is suspended and
   other operations run before it resumes. request and response hold the
   last handler that ended: a step of a handler is taken once the previous
   response has been delivered. *)
Idle == response = None

Deliver ==
    /\ ~Idle
    /\ request' = None
    /\ response' = None
    /\ UNCHANGED <<fs, dirExists, is_configured, configured, retriever, rag_module, other_modules>>

(* Each operation with the inputs it can meet in the current state. *)
ServeRagQuery ==
    /\ Idle
    /\ \E query \in ServerQueries, top_k \in ServerKValues \cap (TopKMin..TopKMax) :
       \E documents \in {<<>>, <<TextDogs>>} :
       \E fault \in EnsureFaults, init_ok \in EnsureInits :
       \E backend \in BackendChoices(query, top_k, ensure_configured(fault, init_ok)) :
           RagQuery(query, documents, top_k, fault, init_ok, backend)

RejectRagQuery ==
    /\ Idle
    /\ \/ RagQueryRejected(FALSE, <<>>, TRUE, <<>>, 1)
       \/ RagQueryRejected(TRUE, QueryCatMat, FALSE, <<>>, 1)
       \/ \E top_k \in ServerKValues : RagQueryRejected(TRUE, QueryCatMat, TRUE, <<>>, top_k)

ServeReloadDocuments ==
    /\ Idle
    /\ \E fault \in EnsureFaults, init_ok \in EnsureInits :
       \E reload_fault \in ReloadFaults(ensure_configured(fault, init_ok)) :
           ReloadDocuments(fault, init_ok, reload_fault)

ServeRagStatus ==
    /\ Idle
    /\ \E fault \in EnsureFaults, init_ok \in EnsureInits : RagStatus(fault, init_ok)

ChangeFiles ==
    /\ Idle
    /\ \/ \E i \in 1..MaxServerFiles,
              file \in {[readable |-> FALSE, content |-> <<>>],
                        [readable |-> TRUE, content |-> TextCatSat]} :
              \E pos \in 1..MaxServerFiles : WriteFile(i, file, pos)
       \/ \E pos \in 1..MaxServerFiles : RemoveFile(pos)
       \/ RemoveDirectory

Next ==
    \/ ServeRagQuery
    \/ RejectRagQuery
    \/ ServeReloadDocuments
    \/ ServeRagStatus
    \/ ChangeFiles
    \/ Deliver

Spec == Init /\ [][Next]_vars

(* The preview specification: the endpoint over a directory whose first
   file can be long enough for the context to exceed the preview. *)
ChangePreviewFiles ==
    /\ Idle
    /\ \/ \E i \in 1..MaxServerFiles : \E file \in PreviewFilesAt(i) :
              \E pos \in 1..MaxServerFiles : WriteFile(i, file, pos)
       \/ \E pos \in 1..MaxServerFiles : RemoveFile(pos)

NextPreview ==
    \/ ServeRagQuery
    \/ ServeReloadDocuments
    \/ ChangePreviewFiles
    \/ Deliver

SpecPreview == Init /\ [][NextPreview]_vars

-----------------------------------------------------------------------------
(* The joke tool (tools/joke_api.py) and the ReAct endpoint (api/react.py) *)
(* over the DSPyService instance (services/dspy_service.py).               *)

(* keyword in text: the keyword is a substring of the text. *)
Contains(text, keyword) ==
    \E i \in 1..(Len(text) - Len(keyword) + 1) :
        SubSeq(text, i, i + Len(keyword) - 1) = keyword

joke_keywords ==
    <<<<"j", "o", "k", "e">>,
      <<"f", "u", "n", "n", "y">>,
      <<"l", "a", "u", "g", "h">>,
      <<"h", "u", "m", "o", "r">>,
      <<"c", "o", "m", "e", "d", "y">>,
      <<"a", "m", "u", "s", "i", "n", "g">>>>

(* A faulty variant of is_joke_request: the message is not lowercased. *)
is_joke_request_case_sensitive(message) ==
    \E k \in 1..Len(joke_keywords) : Contains(message, joke_keywords[k])

(* any(keyword in message.lower() for keyword in joke_keywords) *)
is_joke_request(message) ==
    \E k \in 1..Len(joke_keywords) : Contains(Lower(message), joke_keywords[k])

jokes ==
    <<[setup |-> "Why don't scientists trust atoms?",
       punchline |-> "Because they make up everything!", type |-> "science"],
      [setup |-> "What do you call a fake noodle?",
       punchline |-> "An impasta!", type |-> "food"],
      [setup |-> "Why did the scarecrow win an award?",
       punchline |-> "He was outstanding in his field!", type |-> "general"],
      [setup |-> "What do you call a bear with no teeth?",
       punchline |-> "A gummy bear!", type |-> "animal"],
      [setup |-> "Why don't eggs tell jokes?",
       punchline |-> "They'd crack each other up!", type |-> "food"]>>

fallback_joke ==
    [setup |-> "Why did the API break?",
     punchline |-> "It couldn't handle the requests!", type |-> "tech"]

(* What random.choice can pick, and whether the try body raises: neither
   asyncio.sleep nor random.choice over a non-empty list raises an
   Exception, so the except branch is never entered. *)
JokeChoices == 1..Len(jokes)

(* A faulty variant of get_joke_from_api: a failure result without its
   fallback joke. *)
get_joke_from_api_bare(choice, raises) ==
    IF choice = Len(jokes) \/ raises
    THEN [success |-> FALSE, error |-> "error"]
    ELSE [success |-> TRUE, joke |-> jokes[choice], source |-> "Mock Joke API v1.0"]

get_joke_from_api(choice, raises) ==
    IF raises
    THEN [success |-> FALSE, error |-> "error", fallback_joke |-> fallback_joke]
    ELSE [success |-> TRUE, joke |-> jokes[choice], source |-> "Mock Joke API v1.0"]

(* _format_joke_response: the text, as the pieces the f-string puts together;
   an absent or empty thought adds nothing. *)
format_joke_response(joke_result, thought) ==
    IF joke_result.success
    THEN <<"Here's a ", joke_result.joke.type, " joke for you:\n\n",
           joke_result.joke.setup, "\n", joke_result.joke.punchline>>
         \o (IF thought # "" THEN <<"\n\nThought process: ", thought>> ELSE <<>>)
    ELSE IF "fallback_joke" \in DOMAIN joke_result
    THEN <<"Here's a backup joke:\n\n", joke_result.fallback_joke.setup, "\n",
           joke_result.fallback_joke.punchline>>
    ELSE <<"Here's a backup joke:\n\n", "Error", "\n", "Something went wrong!">>

(* _should_use_joke_tool *)
should_use_joke_tool(action, message) ==
    \/ Contains(Lower(action), <<"j", "o", "k", "e">>)
    \/ Contains(Lower(action), <<"j", "o", "k", "e", "_", "a", "p", "i">>)
    \/ is_joke_request(message)

MsgUpperJoke ==
    <<"A", " ", "J", "O", "K", "E", ",", " ", "p", "l", "e", "a", "s", "e">>

(* The messages the endpoint is driven with: the joke-style and the other
   messages of the tests, and messages with a keyword in upper case, inside
   a longer word, or broken up. *)
Messages ==
    {
     <<"T", "e", "l", "l", " ", "m", "e", " ", "a", " ", "j", "o", "k", "e">>,
     <<"I", " ", "w", "a", "n", "t", " ", "s", "o", "m", "e", "t", "h", "i", "n", "g", " ",
       "f", "u", "n", "n", "y">>,
     <<"M", "a", "k", "e", " ", "m", "e", " ", "l", "a", "u", "g", "h">>,
     <<"G", "o", "t", " ", "a", "n", "y", " ", "h", "u", "m", "o", "r", "?">>,
     <<"G", "i", "v", "e", " ", "m", "e", " ", "a", " ", "c", "o", "m", "e", "d", "y">>,
     <<"H", "o", "w", " ", "A", "M", "U", "S", "I", "N", "G">>,
     MsgUpperJoke,
     <<"N", "o", " ", "m", "o", "r", "e", " ", "j", "o", "k", "e", "s", "t", "e", "r", " ",
       "s", "t", "u", "f", "f">>,
     <<"W", "h", "a", "t", " ", "i", "s", " ", "t", "h", "e", " ", "c", "a", "p", "i", "t",
       "a", "l", " ", "o", "f", " ", "F", "r", "a", "n", "c", "e", "?">>,
     <<"H", "o", "w", " ", "d", "o", "e", "s", " ", "D", "S", "P", "y", " ", "w", "o", "r",
       "k", "?">>,
     <<"T", "e", "l", "l", " ", "m", "e", " ", "a", "b", "o", "u", "t", " ", "A", "I">>,
     <<"W", "h", "a", "t", "'", "s", " ", "t", "h", "e", " ", "w", "e", "a", "t", "h", "e",
       "r", " ", "l", "i", "k", "e", "?">>,
     <<"H", "e", "l", "l", "o", " ", "t", "h", "e", "r", "e">>,
     <<"j", "o", "k", " ", "e", " ", "f", "u", "n", " ", "n", "y">>
    }

(* DSPyService.__init__ / _initialize: without an API key nothing is
   created; with one, the modules are created in order and the service is
   configured, unless the initialisation raises on the way ("fails_..."),
   which leaves the modules created until then and configured False. *)
DSPyService(init) ==
    IF ~is_configured
    THEN [configured |-> FALSE, chat_module |-> FALSE, react_agent |-> FALSE,
          model_provider |-> "Mock (No API Key)"]
    ELSE IF init = "ok"
    THEN [configured |-> TRUE, chat_module |-> TRUE, react_agent |-> TRUE,
          model_provider |-> "Groq"]
    ELSE [configured |-> FALSE, chat_module |-> init = "fails_after_chat_module",
          react_agent |-> FALSE, model_provider |-> "Failed"]

(* What a DSPy module does when it is called: it returns a prediction
   (action, thought, response) or it raises. *)
LlmOutcomes ==
    {[raises |-> TRUE, action |-> <<>>, thought |-> "", response |-> ""]}
    \cup {[raises |-> FALSE, action |-> a, thought |-> t, response |-> "answer"] :
             a \in {<<"r", "e", "s", "p", "o", "n", "d", " ", "d", "i", "r", "e", "c", "t",
                      "l", "y">>,
                    <<"U", "s", "e", " ", "J", "O", "K", "E", "_", "A", "P", "I">>},
             t \in {"", "thought"}}

ReActRequest(message, enable_tools, llm, choice, raises) ==
    [op |-> "react_chat", message |-> message, enable_tools |-> enable_tools,
     llm |-> llm, choice |-> choice, joke_raises |-> raises]

(* The response; tool_used is "joke_api" or "null", tool_result a joke
   result or None; calls lists the collaborators the handler called. *)
ReActResponse(text, message, tool_used, tool_result, model_used, calls) ==
    [kind |-> "ok", op |-> "react_chat", response |-> text, message |-> message,
     tool_used |-> tool_used, tool_result |-> tool_result, model_used |-> model_used,
     calls |-> calls]

(* _handle_fallback_react *)
handle_fallback_react(req) ==
    IF is_joke_request(req.message)
    THEN LET joke_result == get_joke_from_api(req.choice, req.joke_raises)
         IN  ReActResponse(format_joke_response(joke_result, ""), req.message,
                           "joke_api", joke_result, "Fallback (DSPy not configured)",
                           <<"joke_api">>)
    ELSE ReActResponse(<<"DSPy is not properly configured. Please check your setup.">>,
                       req.message, "null", None, "Fallback (DSPy not configured)", <<>>)

(* react_chat over the service. *)
react_chat(req, service) ==
    IF ~service.configured \/ ~service.react_agent
    THEN handle_fallback_react(req)
    ELSE IF req.llm.raises
    THEN HTTPException("react_chat", 500, "ReAct processing failed", TRUE)
    ELSE IF ~req.enable_tools
    THEN ReActResponse(<<req.llm.response>>, req.message, "null", None,
                       service.model_provider, <<"chat_module">>)
    ELSE IF should_use_joke_tool(req.llm.action, req.message)
    THEN LET tool_result == get_joke_from_api(req.choice, req.joke_raises)
         IN  ReActResponse(format_joke_response(tool_result, req.llm.thought),
                           req.message, "joke_api", tool_result,
                           service.model_provider, <<"react_agent", "joke_api">>)
    ELSE ReActResponse(<<req.llm.response>>, req.message, "null", None,
                       service.model_provider, <<"react_agent">>)

(* The inputs react_chat can meet: a module is called only by a configured
   service, the joke API only when the tool is used. *)
LlmChoices(service) ==
    IF service.configured /\ service.react_agent THEN LlmOutcomes
    ELSE {[raises |-> FALSE, action |-> <<>>, thought |-> "", response |-> ""]}

UsesJokeApi(message, enable_tools, llm, service) ==
    IF ~service.configured \/ ~service.react_agent THEN is_joke_request(message)
    ELSE ~llm.raises /\ enable_tools /\ should_use_joke_tool(llm.action, message)

(* react_chat on a path without the joke tool: the handler runs to its end
   without an await. *)
ReactChat(message, enable_tools, llm) ==
    LET req == ReActRequest(message, enable_tools, llm, 1, FALSE)
    IN  /\ Idle
        /\ ~UsesJokeApi(message, enable_tools, llm, dspy_service)
        /\ request' = req
        /\ response' = react_chat(req, dspy_service)
        /\ UNCHANGED <<fs, dirExists, is_configured, configured, retriever, rag_module,
                       other_modules>>

(* react_chat on a path with the joke tool, up to the await of
   get_joke_from_api (asyncio.sleep inside it): the modules have been
   called, the handler is suspended. *)
StartReactChat(message, enable_tools, llm) ==
    /\ Idle
    /\ UsesJokeApi(message, enable_tools, llm, dspy_service)
    /\ Len(suspended) < MaxSuspended
    /\ suspended' = Append(suspended, [op |-> "react_chat", message |-> message,
                                       enable_tools |-> enable_tools, llm |-> llm])
    /\ UNCHANGED <<fs, dirExists, is_configured, configured, retriever, rag_module,
                   request, response, dspy_service, optimized_qa, train_data, qa, agent>>

(* The suspended react_chat whose sleep ends first resumes: the joke is
   chosen, the response is built over the service as it is now. *)
ResumeReactChat(choice, raises) ==
    /\ Idle
    /\ suspended # <<>>
    /\ Head(suspended).op = "react_chat"
    /\ LET s == Head(suspended)
           req == ReActRequest(s.message, s.enable_tools, s.llm, choice, raises)
       IN  /\ request' = req
           /\ response' = react_chat(req, dspy_service)
    /\ suspended' = Tail(suspended)
    /\ UNCHANGED <<fs, dirExists, is_configured, configured, retriever, rag_module,
                   dspy_service, optimized_qa, train_data, qa, agent>>

ServeReactChat ==
    \E message \in {MsgUpperJoke,
                     <<"N", "o", " ", "m", "o", "r", "e", " ", "j", "o", "k", "e", "s", "t",
                       "e", "r", " ", "s", "t", "u", "f", "f">>,
                     <<"H", "e", "l", "l", "o", " ", "t", "h", "e", "r", "e">>},
       enable_tools \in BOOLEAN :
    \E llm \in LlmChoices(dspy_service) :
        \/ ReactChat(message, enable_tools, llm)
        \/ StartReactChat(message, enable_tools, llm)

(* The ReAct specification: the service constructed at import, then
   react_chat requests, those that use the joke tool overlapping with the
   requests that arrive while they are suspended. *)
InitReact ==
    /\ fs = <<>>
    /\ dirExists = FALSE
    /\ is_configured \in BOOLEAN
    /\ configured = FALSE
    /\ retriever = None
    /\ rag_module = None
    /\ request = None
    /\ response = None
    /\ \E init \in {"ok", "fails_before_modules", "fails_after_chat_module"} :
           dspy_service = DSPyService(init)
    /\ optimized_qa = None
    /\ train_data = [exists |-> TRUE, files |-> <<>>]
    /\ qa = None
    /\ agent = None
    /\ suspended = <<>>

NextReact ==
    \/ ServeReactChat
    \/ \E choice \in JokeChoices, raises \in {FALSE} : ResumeReactChat(choice, raises)
    \/ Deliver

SpecReact == InitReact /\ [][NextReact]_vars


(* DSPyService.simple_retrieval: the scores of the documents, a stable
   descending sort, and the first top_k of the sorted pairs. *)
simple_retrieval(query, documents, top_k) ==
    LET query_words == WordSet(query)
        doc_scores == [i \in 1..Len(documents) |->
                          <<documents[i], Score(query_words, documents[i])>>]
        top == SliceTo(SortDesc(<<>>, doc_scores), top_k)
    IN  [top_docs |-> [i \in 1..Len(top) |-> top[i][1]],
         top_scores |-> [i \in 1..Len(top) |-> top[i][2]]]

(* The document lists simple_retrieval is called with. *)
MaxSimpleDocs == 2

SimpleRetrieval(query, documents, top_k) ==
    /\ Idle
    /\ request' = [op |-> "simple_retrieval", query |-> query, documents |-> documents,
                   top_k |-> top_k]
    /\ response' = [kind |-> "simple_retrieved", op |-> "simple_retrieval"]
                       @@ simple_retrieval(query, documents, top_k)
    /\ UNCHANGED <<fs, dirExists, is_configured, configured, retriever, rag_module,
                   other_modules>>

CallSimpleRetrieval ==
    \E query \in Queries, top_k \in KValues,
       documents \in UNION {[1..n -> Contents] : n \in 0..MaxSimpleDocs} :
        SimpleRetrieval(query, documents, top_k)

NextSimple == CallSimpleRetrieval \/ Deliver

SpecSimple == InitReact /\ [][NextSimple]_vars

-----------------------------------------------------------------------------
(* The fine-tuning endpoints (api/finetuning.py) over the train-data        *)
(* directory and the stored model optimized_qa.                             *)

MaxTrainFiles == 2
MaxRows == 2
MaxUploads == 1

TrainFileNames == <<"a.csv", "b.csv", "c.csv", "d.csv">>

(* What one CSV file can hold. rows counts the lines of the file that are
   not blank, none of them quoted text: readable says that pd.read_csv
   reads them, as that many rows (question, answer), and not that the
   try block raises on them (bytes that are no UTF-8, a line of too many
   fields, rows that are no pairs). The file of no such line, which
   pd.read_csv raises on as well, holds no byte, as
   open(file_location, "wb") leaves it, or blank lines only. *)
EmptyFile == [readable |-> FALSE, rows |-> 0]

TrainFileStates(rows) ==
    {EmptyFile} \cup {[readable |-> r, rows |-> n] : r \in BOOLEAN, n \in 1..rows}

(* The examples of the files from the i-th on, in the order glob lists the
   files in. *)
RECURSIVE Examples(_, _)
Examples(files, i) ==
    IF i > Len(files) THEN <<>>
    ELSE (IF files[i].readable
          THEN [r \in 1..files[i].rows |-> [file |-> files[i].name, row |-> r]]
          ELSE <<>>)
         \o Examples(files, i + 1)

RECURSIVE ProcessedFiles(_, _)
ProcessedFiles(files, i) ==
    IF i > Len(files) THEN <<>>
    ELSE (IF files[i].readable /\ files[i].rows > 0 THEN <<files[i].name>> ELSE <<>>)
         \o ProcessedFiles(files, i + 1)

(* load_training_data: the directory is created when absent, each file is
   read under its own try, and a file adds its examples and its name when
   its table is not empty; mkdir and glob are outside any try. *)
load_training_data(data, fault) ==
    [raised |-> fault # NoFault,
     exists |-> data.exists \/ fault # MkdirFault,
     trainlist |-> IF fault # NoFault THEN <<>> ELSE Examples(data.files, 1),
     processed_files |-> IF fault # NoFault THEN <<>> ELSE ProcessedFiles(data.files, 1)]

(* optimizer.compile(student=qa_module, trainset=trainlist) *)
OptimizedQA(trainlist) == [kind |-> "optimized_qa", op |-> "compile", trainset |-> trainlist]

TrainingResponse(files_processed, examples_count) ==
    [kind |-> "ok", op |-> "train_model", files_processed |-> files_processed,
     examples_count |-> examples_count, status |-> "success"]

PredictionResponse(question, answer) ==
    [kind |-> "ok", op |-> "get_prediction", question |-> question, answer |-> answer]

(* The except Exception branch of train_model: whatever was raised in the
   try body, an HTTPException included, leaves as status 500. *)
TrainingFailed(raised) ==
    HTTPException("train_model", 500, <<"Training failed: ", raised>>, TRUE)

NoTrainingData == "404: No training data found in train-data directory"

(* A faulty variant of train_model: a failed training drops the stored
   model. *)
train_model_dropping(data, model, fault, compile_ok) ==
    LET loaded == load_training_data(data, fault)
    IN  IF loaded.raised
        THEN [response |-> TrainingFailed("load error"), optimized_qa |-> None,
              exists |-> loaded.exists]
        ELSE IF loaded.trainlist = <<>>
        THEN [response |-> TrainingFailed(NoTrainingData), optimized_qa |-> None,
              exists |-> loaded.exists]
        ELSE IF ~compile_ok
        THEN [response |-> TrainingFailed("compile error"), optimized_qa |-> None,
              exists |-> loaded.exists]
        ELSE [response |-> TrainingResponse(loaded.processed_files, Len(loaded.trainlist)),
              optimized_qa |-> OptimizedQA(loaded.trainlist), exists |-> loaded.exists]

(* train_model: the response, the stored model and the directory after. *)
train_model(data, model, fault, compile_ok) ==
    LET loaded == load_training_data(data, fault)
    IN  IF loaded.raised
        THEN [response |-> TrainingFailed("load error"), optimized_qa |-> model,
              exists |-> loaded.exists]
        ELSE IF loaded.trainlist = <<>>
        THEN [response |-> TrainingFailed(NoTrainingData), optimized_qa |-> model,
              exists |-> loaded.exists]
        ELSE IF ~compile_ok
        THEN [response |-> TrainingFailed("compile error"), optimized_qa |-> model,
              exists |-> loaded.exists]
        ELSE [response |-> TrainingResponse(loaded.processed_files, Len(loaded.trainlist)),
              optimized_qa |-> OptimizedQA(loaded.trainlist), exists |-> loaded.exists]

(* get_prediction *)
get_prediction(question, model, predict_ok) ==
    IF model = None
    THEN HTTPException("get_prediction", 400,
                       "Model not trained. Please call /train endpoint first", FALSE)
    ELSE IF predict_ok
    THEN PredictionResponse(question, "answer")
    ELSE HTTPException("get_prediction", 500, <<"Prediction failed: ", "call error">>, TRUE)

Questions == {"What is DSPy?", "Who wrote it?"}

TrainModel(fault, compile_ok) ==
    LET out == train_model(train_data, optimized_qa, fault, compile_ok)
    IN  /\ Idle
        /\ request' = [op |-> "train_model", fault |-> fault, compile_ok |-> compile_ok]
        /\ response' = out.response
        /\ optimized_qa' = out.optimized_qa
        /\ train_data' = [train_data EXCEPT !.exists = out.exists]
        /\ UNCHANGED <<fs, dirExists, is_configured, configured, retriever, rag_module,
                       dspy_service, qa, agent, suspended>>

(* mkdir can raise only when the directory is missing, glob at any time;
   compile is reached only with examples loaded. *)
ServeTrainModel ==
    \E fault \in {NoFault, GlobFault(0)}
                    \cup (IF train_data.exists THEN {} ELSE {MkdirFault}) :
    \E compile_ok \in (IF load_training_data(train_data, fault).trainlist # <<>>
                        THEN BOOLEAN ELSE {TRUE}) :
        TrainModel(fault, compile_ok)

GetPrediction(question, predict_ok) ==
    /\ Idle
    /\ request' = [op |-> "get_prediction", question |-> question, predict_ok |-> predict_ok]
    /\ response' = get_prediction(question, optimized_qa, predict_ok)
    /\ UNCHANGED <<fs, dirExists, is_configured, configured, retriever, rag_module,
                   other_modules>>

ServeGetPrediction ==
    \E question \in Questions :
    \E predict_ok \in (IF optimized_qa # None THEN BOOLEAN ELSE {TRUE}) :
        GetPrediction(question, predict_ok)

(* The listing after the file of a name is created or replaced: a file that
   exists keeps its place, a new one is listed at pos, anywhere among the
   others. *)
HasFile(files, name) == \E j \in 1..Len(files) : files[j].name = name

PutFile(files, name, file, pos) ==
    LET entry == [name |-> name, readable |-> file.readable, rows |-> file.rows]
    IN  IF HasFile(files, name)
        THEN [j \in 1..Len(files) |-> IF files[j].name = name THEN entry ELSE files[j]]
        ELSE SubSeq(files, 1, pos - 1) \o <<entry>> \o SubSeq(files, pos, Len(files))

UploadFailed(raised) ==
    HTTPException("upload_train_data", 500, <<"File upload failed: ", raised>>, FALSE)

(* upload_train_data when open(file_location, "wb") raises (the directory
   is missing, or the file cannot be created): the except branch answers
   500 and nothing is written. *)
UploadRejected(name, file, open_ok) ==
    /\ Idle
    /\ ~train_data.exists \/ ~open_ok
    /\ request' = [op |-> "upload_train_data", filename |-> name, file |-> file]
    /\ response' = UploadFailed("open error")
    /\ UNCHANGED <<fs, dirExists, is_configured, configured, retriever, rag_module,
                   other_modules>>

(* upload_train_data up to its await: open(file_location, "wb") has created
   the file or emptied the one of that name, and the handler is suspended
   in file.read(), holding the file it opened. linked says that this file
   is still the one the directory lists under the name. *)
StartUpload(name, file, pos) ==
    /\ Idle
    /\ train_data.exists
    /\ Len(suspended) < MaxUploads
    /\ HasFile(train_data.files, name) \/ Len(train_data.files) < MaxTrainFiles
    /\ pos \in 1..(Len(train_data.files) + 1)
    /\ HasFile(train_data.files, name) => pos = 1
    /\ train_data' = [train_data EXCEPT !.files = PutFile(@, name, EmptyFile, pos)]
    /\ suspended' = Append(suspended, [op |-> "upload_train_data", filename |-> name,
                                       file |-> file, linked |-> TRUE])
    /\ UNCHANGED <<fs, dirExists, is_configured, configured, retriever, rag_module,
                   request, response, dspy_service, optimized_qa, qa, agent>>

(* What the file holds once f.write(content) has written the upload from
   the start of the file over what it holds then. Over a file of no
   non-blank line it holds the lines of the upload. Over what another
   writer has put there since the open, it holds the upload followed by the
   rest of that content where it is the longer: every line of the upload is
   there, the last one possibly lengthened, and after them come at most the
   lines of the other content, the first possibly cut, so the non-blank
   lines number from those of the upload to those of the two together. An
   upload of no non-blank line leaves the other content as it is when it
   holds no byte, and blanks the start of it when it holds blank lines. And
   pd.read_csv, which decodes and parses the bytes as they now stand, may
   read them or raise whether or not it read either content. *)
Overwritten(file, held) ==
    IF held.rows = 0 THEN {file}
    ELSE {[readable |-> r, rows |-> n] :
             r \in BOOLEAN, n \in file.rows..(file.rows + held.rows)}
         \ {[readable |-> TRUE, rows |-> 0]}

(* A suspended upload resumes: file.read() returns and the content is
   written to the file the handler opened, or it raises and the except
   branch answers 500 with nothing written. A file the directory no longer
   lists under the name takes the content away with it: the listing is
   left as it is. *)
ResumeUpload(k, read_ok) ==
    /\ Idle
    /\ k \in 1..Len(suspended)
    /\ suspended[k].op = "upload_train_data"
    /\ LET s == suspended[k]
           held == {[readable |-> train_data.files[j].readable,
                     rows |-> train_data.files[j].rows] :
                       j \in {j \in 1..Len(train_data.files) :
                                 train_data.files[j].name = s.filename}}
       IN  /\ request' = [op |-> "upload_train_data", filename |-> s.filename,
                          file |-> s.file]
           /\ response' = IF read_ok
                          THEN [kind |-> "ok", op |-> "upload_train_data",
                                filename |-> s.filename,
                                message |-> "File uploaded successfully"]
                          ELSE UploadFailed("read error")
           /\ IF read_ok /\ s.linked
              THEN \E h \in held : \E result \in Overwritten(s.file, h) :
                       train_data' =
                           [train_data EXCEPT !.files = PutFile(@, s.filename, result, 1)]
              ELSE UNCHANGED train_data
    /\ suspended' = SubSeq(suspended, 1, k - 1) \o SubSeq(suspended, k + 1, Len(suspended))
    /\ UNCHANGED <<fs, dirExists, is_configured, configured, retriever, rag_module,
                   dspy_service, optimized_qa, qa, agent>>

ServeUpload ==
    \E i \in 1..MaxTrainFiles, file \in TrainFileStates(1) :
        \/ \E open_ok \in BOOLEAN : UploadRejected(TrainFileNames[i], file, open_ok)
        \/ \E pos \in 1..MaxTrainFiles : StartUpload(TrainFileNames[i], file, pos)

(* The suspended handlers once the directory lists another file, or none,
   under the name: the uploads that opened the former file keep writing to
   it. *)
Detached(name) ==
    [k \in 1..Len(suspended) |->
        IF suspended[k].op = "upload_train_data" /\ suspended[k].filename = name
        THEN [suspended[k] EXCEPT !.linked = FALSE]
        ELSE suspended[k]]

(* The environment, between requests: a CSV file is created, written in
   place or replaced by another file of its name, a file is removed, or the
   empty directory is removed. *)
WriteTrainFile(i, file, pos, in_place) ==
    /\ train_data.exists
    /\ HasFile(train_data.files, TrainFileNames[i]) \/ Len(train_data.files) < MaxTrainFiles
    /\ pos \in 1..(Len(train_data.files) + 1)
    /\ HasFile(train_data.files, TrainFileNames[i]) => pos = 1
    /\ in_place => HasFile(train_data.files, TrainFileNames[i])
    /\ train_data' = [train_data EXCEPT !.files = PutFile(@, TrainFileNames[i], file, pos)]
    /\ suspended' = IF in_place THEN suspended ELSE Detached(TrainFileNames[i])
    /\ train_data' # train_data \/ suspended' # suspended

RemoveTrainFile(pos) ==
    /\ pos \in 1..Len(train_data.files)
    /\ train_data' = [train_data EXCEPT
                          !.files = SubSeq(@, 1, pos - 1) \o SubSeq(@, pos + 1, Len(@))]
    /\ suspended' = Detached(train_data.files[pos].name)

RemoveTrainDirectory ==
    /\ train_data.exists
    /\ train_data.files = <<>>
    /\ train_data' = [train_data EXCEPT !.exists = FALSE]
    /\ UNCHANGED suspended

ChangeTrainData ==
    /\ Idle
    /\ \/ \E i \in 1..MaxTrainFiles, file \in TrainFileStates(MaxRows) :
              \E pos \in 1..MaxTrainFiles, in_place \in BOOLEAN :
                  WriteTrainFile(i, file, pos, in_place)
       \/ \E pos \in 1..MaxTrainFiles : RemoveTrainFile(pos)
       \/ RemoveTrainDirectory
    /\ UNCHANGED <<fs, dirExists, is_configured, configured, retriever, rag_module,
                   request, response, dspy_service, optimized_qa, qa, agent>>

(* The fine-tuning specification: at import upload.py has created the
   train-data directory and no model is stored; then /upload-train-data,
   /train and /predict requests while the directory changes. *)
InitTrain ==
    /\ fs = <<>>
    /\ dirExists = FALSE
    /\ is_configured = FALSE
    /\ configured = FALSE
    /\ retriever = None
    /\ rag_module = None
    /\ request = None
    /\ response = None
    /\ dspy_service = None
    /\ optimized_qa = None
    /\ train_data = [exists |-> TRUE, files |-> <<>>]
    /\ qa = None
    /\ agent = None
    /\ suspended = <<>>

NextTrain ==
    \/ ServeTrainModel
    \/ ServeGetPrediction
    \/ ServeUpload
    \/ \E k \in 1..MaxUploads, read_ok \in BOOLEAN : ResumeUpload(k, read_ok)
    \/ ChangeTrainData
    \/ Deliver

SpecTrain == InitTrain /\ [][NextTrain]_vars

-----------------------------------------------------------------------------
(* The question, reasoning and agent endpoints (api/qa.py, api/agent.py)    *)
(* over their module globals.                                               *)

NotConfiguredText == "Service not configured. Please set GROQ_API_KEY."

QAGlobals(c, q, r) == [configured |-> c, question_module |-> q, reasoning_module |-> r]

AgentGlobals(c, a) == [configured |-> c, agent_module |-> a]

(* A faulty variant of qa.py's _ensure_configured: the modules are created
   whether or not an API key is set. *)
qa_ensure_configured_eager(g, init) ==
    IF g.configured THEN [globals |-> g, calls |-> <<>>]
    ELSE IF init = "ok"
    THEN [globals |-> QAGlobals(TRUE, TRUE, TRUE),
          calls |-> <<"QuestionModule()", "ReasoningModule()">>]
    ELSE IF init = "reasoning_module_fails"
    THEN [globals |-> QAGlobals(TRUE, TRUE, FALSE),
          calls |-> <<"QuestionModule()", "ReasoningModule()">>]
    ELSE [globals |-> QAGlobals(TRUE, FALSE, FALSE), calls |-> <<"QuestionModule()">>]

(* qa.py's _ensure_configured: the globals after the call and the
   constructors it called. *)
qa_ensure_configured(g, init) ==
    IF g.configured THEN [globals |-> g, calls |-> <<>>]
    ELSE IF ~is_configured
    THEN [globals |-> [g EXCEPT !.configured = TRUE], calls |-> <<>>]
    ELSE IF init = "ok"
    THEN [globals |-> QAGlobals(TRUE, TRUE, TRUE),
          calls |-> <<"QuestionModule()", "ReasoningModule()">>]
    ELSE IF init = "reasoning_module_fails"
    THEN [globals |-> QAGlobals(TRUE, TRUE, g.reasoning_module),
          calls |-> <<"QuestionModule()", "ReasoningModule()">>]
    ELSE [globals |-> QAGlobals(TRUE, g.question_module, g.reasoning_module),
          calls |-> <<"QuestionModule()">>]

(* agent.py's _ensure_configured *)
agent_ensure_configured(g, init) ==
    IF g.configured THEN [globals |-> g, calls |-> <<>>]
    ELSE IF ~is_configured
    THEN [globals |-> [g EXCEPT !.configured = TRUE], calls |-> <<>>]
    ELSE IF init = "ok"
    THEN [globals |-> AgentGlobals(TRUE, TRUE), calls |-> <<"AgentModule()">>]
    ELSE [globals |-> AgentGlobals(TRUE, g.agent_module), calls |-> <<"AgentModule()">>]

QuestionResponse(op, question, answer, calls) ==
    [kind |-> "ok", op |-> op, question |-> question, answer |-> answer, calls |-> calls]

AgentResponse(text, message, model_used, calls) ==
    [kind |-> "ok", op |-> "agent_chat", response |-> text, message |-> message,
     model_used |-> model_used, calls |-> calls]

(* The body of question_answering and of chain_of_thought_reasoning after
   _ensure_configured: module is the handler's module global. *)
answer_question(op, req, module, module_name, ensured) ==
    IF ~is_configured
    THEN QuestionResponse(op, req.question, NotConfiguredText, ensured.calls)
    ELSE IF ~module
    THEN HTTPException(op, 500, <<module_name, " module not initialized">>, FALSE)
    ELSE IF req.call_ok
    THEN QuestionResponse(op, req.question, "answer", ensured.calls \o <<module_name>>)
    ELSE HTTPException(op, 500, <<module_name, " processing failed">>, TRUE)

question_answering(req, ensured) ==
    answer_question("question_answering", req, ensured.globals.question_module,
                    "Question", ensured)

chain_of_thought_reasoning(req, ensured) ==
    answer_question("chain_of_thought_reasoning", req, ensured.globals.reasoning_module,
                    "Reasoning", ensured)

agent_chat(req, ensured) ==
    IF ~is_configured
    THEN AgentResponse(NotConfiguredText, req.message, "Not configured", ensured.calls)
    ELSE IF ~ensured.globals.agent_module
    THEN HTTPException("agent_chat", 500, "Agent module not initialized", FALSE)
    ELSE IF req.call_ok
    THEN AgentResponse("analysis", req.message, "DSPy AgentModule (ReAct with Tools)",
                       ensured.calls \o <<"Agent">>)
    ELSE HTTPException("agent_chat", 500, "Agent processing failed", TRUE)

AskQuestion(op, question, context, init, call_ok) ==
    LET req == [op |-> op, question |-> question, context |-> context, call_ok |-> call_ok]
        ensured == qa_ensure_configured(qa, init)
    IN  /\ Idle
        /\ request' = req
        /\ response' = IF op = "question_answering"
                       THEN question_answering(req, ensured)
                       ELSE chain_of_thought_reasoning(req, ensured)
        /\ qa' = ensured.globals
        /\ UNCHANGED <<fs, dirExists, is_configured, configured, retriever, rag_module,
                       dspy_service, optimized_qa, train_data, agent, suspended>>

(* The creation of the modules is reached once, with an API key; a module
   is called only when it exists. *)
QAInitChoices ==
    IF ~qa.configured /\ is_configured
    THEN {"ok", "question_module_fails", "reasoning_module_fails"}
    ELSE {"ok"}

QACallChoices(op, init) ==
    LET g == qa_ensure_configured(qa, init).globals
    IN  IF is_configured /\ (IF op = "question_answering"
                             THEN g.question_module ELSE g.reasoning_module)
        THEN BOOLEAN ELSE {TRUE}

ServeQuestion ==
    \E op \in {"question_answering", "chain_of_thought_reasoning"} :
    \E question \in Questions, context \in {"null", "DSPy is a framework."} :
    \E init \in QAInitChoices : \E call_ok \in QACallChoices(op, init) :
        AskQuestion(op, question, context, init, call_ok)

AgentChat(message, init, call_ok) ==
    LET req == [op |-> "agent_chat", message |-> message, call_ok |-> call_ok]
        ensured == agent_ensure_configured(agent, init)
    IN  /\ Idle
        /\ request' = req
        /\ response' = agent_chat(req, ensured)
        /\ agent' = ensured.globals
        /\ UNCHANGED <<fs, dirExists, is_configured, configured, retriever, rag_module,
                       dspy_service, optimized_qa, train_data, qa, suspended>>

ServeAgentChat ==
    \E message \in {"What is the weather in Paris?", "Tell me a joke"} :
    \E init \in (IF ~agent.configured /\ is_configured THEN {"ok", "fails"} ELSE {"ok"}) :
    \E call_ok \in (IF is_configured /\ agent_ensure_configured(agent, init).globals.agent_module
                    THEN BOOLEAN ELSE {TRUE}) :
        AgentChat(message, init, call_ok)

(* The question and agent specification: nothing created at import, then
   requests to the three endpoints. *)
InitQA ==
    /\ fs = <<>>
    /\ dirExists = FALSE
    /\ is_configured \in BOOLEAN
    /\ configured = FALSE
    /\ retriever = None
    /\ rag_module = None
    /\ request = None
    /\ response = None
    /\ dspy_service = None
    /\ optimized_qa = None
    /\ train_data = [exists |-> TRUE, files |-> <<>>]
    /\ qa = QAGlobals(FALSE, FALSE, FALSE)
    /\ agent = AgentGlobals(FALSE, FALSE)
    /\ suspended = <<>>

NextQA == ServeQuestion \/ ServeAgentChat \/ Deliver

SpecQA == InitQA /\ [][NextQA]_vars

-----------------------------------------------------------------------------
(* Reference notions the retrieval claims are stated with.                 *)

Retrieved == response.kind = "retrieved"

(* The lowercase words of a text, stated without splitting: w is a word when
   it is a whitespace-free stretch of the lowercased text that whitespace or
   the text's ends bound on both sides. *)
RefWords(text) ==
    LET low == Lower(text)
        n == Len(low)
        black(i) == low[i] \notin Whitespace
        first == {i \in 1..n : black(i) /\ (i = 1 \/ ~black(i - 1))}
        last == {j \in 1..n : black(j) /\ (j = n \/ ~black(j + 1))}
    IN  {SubSeq(low, p[1], p[2]) : p \in
            {p \in first \X last :
                p[1] <= p[2] /\ \A m \in p[1]..p[2] : black(m)}}

(* x is the fraction a / b. *)
IsFraction(x, a, b) == x[1] * b = a * x[2] /\ x[2] > 0

(* The uppercase of a text, and the text with the case of each letter swapped. *)
UpperChar(c) ==
    IF \E i \in 1..Len(LowerChars) : LowerChars[i] = c
    THEN UpperChars[CHOOSE i \in 1..Len(LowerChars) : LowerChars[i] = c]
    ELSE c

Upper(s) == [i \in 1..Len(s) |-> UpperChar(s[i])]

SwapCase(s) ==
    [i \in 1..Len(s) |-> IF UpperChar(s[i]) # s[i] THEN UpperChar(s[i]) ELSE LowerChar(s[i])]

(* The text said twice, and the texts got by cutting at a whitespace and
   exchanging the two parts. *)
Repeated(s) == s \o <<" ">> \o s

Reordered(s) ==
    {SubSeq(s, i + 1, Len(s)) \o <<"\n">> \o SubSeq(s, 1, i - 1) :
        i \in {m \in 1..Len(s) : s[m] \in Whitespace}}

(* The query's score against a document, as the reference formula gives it. *)
RefScoreIs(x, query, doc) ==
    LET Q == RefWords(query)
        D == RefWords(doc)
    IN  IF Q \cup D = {} THEN x = Zero
        ELSE IsFraction(x, Cardinality(Q \cap D), Cardinality(Q \cup D))

(* C1: for every corpus, query and top_k in 1..10, retrieve returns two
   parallel lists of equal length with at most top_k entries, every score
   strictly positive, scores non-increasing, and no document that shares no
   word with the query. *)
RetrieveContract ==
    (Retrieved /\ request.top_k \in TopKMin..TopKMax) =>
        LET docs == response.top_docs
            scores == response.top_scores
        IN  /\ Len(docs) = Len(scores)
            /\ Len(docs) <= request.top_k
            /\ \A i \in 1..Len(scores) : Positive(scores[i])
            /\ \A i \in 1..Len(scores) : \A j \in i..Len(scores) :
                   ~Less(scores[i], scores[j])
            /\ \A i \in 1..Len(retriever.documents) :
                   RefWords(request.query) \cap RefWords(retriever.documents[i]) = {}
                       => \A j \in 1..Len(docs) : docs[j] # retriever.documents[i]

(* A retrieval that fills top_k >= 2 places with unequal scores while a
   document with no word of the query stays out. *)
RetrieveContractWitness ==
    /\ Retrieved
    /\ request.top_k \in TopKMin..TopKMax
    /\ request.top_k >= 2
    /\ Len(response.top_docs) = request.top_k
    /\ Less(response.top_scores[2], response.top_scores[1])
    /\ \E i \in 1..Len(retriever.documents) :
           RefWords(request.query) \cap RefWords(retriever.documents[i]) = {}

(* The reference procedure of the retrieval contract: rank the documents by
   score descending, equal scores in corpus order; drop the zero scores;
   take the first k. RefRank(s)[r] is the corpus index of the document in
   place r of that ranking of the scores s. *)
RefRank(s) ==
    [r \in 1..Len(s) |->
        CHOOSE i \in 1..Len(s) :
            Cardinality({j \in 1..Len(s) :
                \/ Less(s[i], s[j])
                \/ (s[j] = s[i] /\ j < i)}) = r - 1]

RefPositiveCount(s) == Cardinality({i \in 1..Len(s) : Positive(s[i])})

RefCorpusScores == 
    [i \in 1..Len(retriever.documents) |->
        Score(WordSet(request.query), retriever.documents[i])]

(* C2: for every corpus, query and top_k >= 1, retrieve (sort, truncate to
   top_k, then remove the zero scores) returns exactly what the reference
   procedure returns (sort with ties in corpus order, drop the zero scores,
   then take the first top_k). *)
RetrieveMatchesReference ==
    (Retrieved /\ request.top_k >= 1) =>
        LET s == RefCorpusScores
            rank == RefRank(s)
            n == Min(request.top_k, RefPositiveCount(s))
        IN  /\ response.top_docs = [r \in 1..n |-> retriever.documents[rank[r]]]
            /\ response.top_scores = [r \in 1..n |-> s[rank[r]]]

(* A retrieval in which truncation, ties and zero scores all occur: more
   documents score positive than top_k, two of them tie, and a zero-score
   document comes first in the corpus. *)
RetrieveMatchesReferenceWitness ==
    /\ Retrieved
    /\ request.top_k >= 1
    /\ LET s == RefCorpusScores
       IN  /\ Len(s) >= 3
           /\ ~Positive(s[1])
           /\ RefPositiveCount(s) > request.top_k
           /\ \E i, j \in 1..Len(s) : i < j /\ s[i] = s[j] /\ Positive(s[i])
                  /\ response.top_docs[Len(response.top_docs)] = retriever.documents[i]

(* C3: the score retrieve assigns to a document is |Q \cap D| / |Q \cup D|
   over the lowercase whitespace-separated words of query and document; it
   lies in [0,1]; and changing letter case, repeating the words or
   reordering the words of the query or of a document changes no score. *)
ScoreIsJaccard ==
    Retrieved =>
        LET docs == retriever.documents
            q == request.query
            words == WordSet(q)
        IN  /\ \A i \in 1..Len(response.top_docs) :
                   /\ RefScoreIs(response.top_scores[i], q, response.top_docs[i])
                   /\ ~Less(response.top_scores[i], Zero)
                   /\ ~Less(<<1, 1>>, response.top_scores[i])
            /\ \A q2 \in {Upper(q), SwapCase(q), Repeated(q)} \cup Reordered(q) :
                   retrieve(docs, q2, request.top_k) =
                       [top_docs |-> response.top_docs,
                        top_scores |-> response.top_scores]
            /\ \A i \in 1..Len(docs) :
                   /\ RefScoreIs(Score(words, docs[i]), q, docs[i])
                   /\ \A d2 \in {Upper(docs[i]), SwapCase(docs[i]), Repeated(docs[i])}
                                    \cup Reordered(docs[i]) :
                          Score(words, d2) = Score(words, docs[i])

(* A retrieval with a score strictly between 0 and 1, for a query that has
   letters in both cases, a repeated word and a place to reorder at. *)
ScoreIsJaccardWitness ==
    /\ Retrieved
    /\ Len(response.top_scores) >= 1
    /\ Less(response.top_scores[1], <<1, 1>>)
    /\ Upper(request.query) # request.query
    /\ Lower(request.query) # request.query
    /\ Reordered(request.query) # {}
    /\ Cardinality(WordStarts(request.query)) > Cardinality(WordSet(request.query))

(* The files of the directory that load_documents turned into documents,
   in order: those that are readable with a non-blank text. *)
LoadedEntries == SelectSeq(fs, LAMBDA e : e.readable /\ Strip(e.content) # <<>>)

(* C4: the score is computed over the words of the file's body only, the
   file name attached at load time taking no part: a query whose word set
   equals the word set of a file's body scores 1.0 against its document. *)
BodyOnlyScore ==
    (Retrieved /\ LoadedEntries # <<>>) =>
        \A i \in 1..Len(LoadedEntries) :
            RefWords(request.query) = RefWords(LoadedEntries[i].content)
                => /\ retriever.documents[i] = TaggedDocument(LoadedEntries[i].name,
                                                   Strip(LoadedEntries[i].content))
                   /\ Score(WordSet(request.query), retriever.documents[i]) = <<1, 1>>

-----------------------------------------------------------------------------
(* The document store and the endpoint: claims C5 to C10.                  *)

Range(seq) == {seq[i] : i \in 1..Len(seq)}

(* The documents the files of the directory make, in enumeration order. *)
FileDocuments ==
    [i \in 1..Len(LoadedEntries) |->
        TaggedDocument(LoadedEntries[i].name, Strip(LoadedEntries[i].content))]

(* The step's last load_documents call returned: a reload answered
   normally, or the first load of a request other than a reload. *)
LoadReturned ==
    \/ response'.kind = "ok" /\ response'.op = "reload_documents"
    \/ ~configured /\ configured' /\ response'.op # "reload_documents"

CorpusAfterLoad ==
    /\ retriever.documents # <<>>
    /\ LoadedEntries = <<>> => retriever.documents = sample_docs
    /\ \/ retriever.documents = sample_docs
       \/ Range(retriever.documents) \cap Range(sample_docs) = {}

(* C5: after every load_documents call that returns (initial load or
   reload) the corpus is non-empty; it is exactly the placeholder documents
   if no readable non-empty file was found; placeholders are never mixed
   with file-loaded documents. *)
LoadLeavesCorpusNonEmpty == [][LoadReturned => CorpusAfterLoad']_vars

(* A reload over a directory that has files, none of them loadable, answered
   normally with the placeholders as the corpus. *)
LoadLeavesCorpusNonEmptyWitness ==
    /\ response.kind = "ok"
    /\ response.op = "reload_documents"
    /\ fs # <<>>
    /\ retriever.documents = sample_docs
    /\ response.reloaded = Len(sample_docs)

(* C6: a reload swaps the corpus in atomically: whatever a reader observes
   after any step is the complete old corpus or the complete new one, never
   an empty or partially populated one. *)
ReloadIsAtomic ==
    [][(retriever # None /\ retriever' # None) =>
           retriever'.documents \in
               {retriever.documents,
                load_documents(<<>>, dirExists, fs, NoFault).documents}]_vars

(* C7: a reload that aborts after it has started rebuilding leaves the
   retriever with what had been appended until then, an empty or partial
   corpus: the prior corpus is not put back and no placeholder is
   substituted; and rag_query answers from the corpus the retriever holds. *)
AbortedReloadLeavesPartialCorpus ==
    /\ (/\ response.kind = "http_error"
        /\ response.op = "reload_documents"
        /\ request.fault.kind = "glob")
           => /\ retriever.documents =
                     LoadFiles(<<>>, SubSeq(fs, 1, request.fault.after))
              /\ response.detail = "Failed to reload documents"
    /\ (response.kind = "ok" /\ response.op = "rag_query")
           => response.retrieved_docs =
                  retrieve(retriever.documents, request.query, request.top_k).top_docs

(* A rag_query answered "no relevant documents" from an empty corpus while
   the directory holds a file with the words of the query: the state an
   aborted reload left behind. *)
AbortedReloadLeavesPartialCorpusWitness ==
    /\ response.kind = "ok"
    /\ response.op = "rag_query"
    /\ retriever.documents = <<>>
    /\ response.response = NoRelevantDocuments
    /\ \E i \in 1..Len(FileDocuments) :
           RefWords(request.query) \cap RefWords(FileDocuments[i]) # {}

(* C8: when the generation backend raises during rag_query the request
   still completes with a normal response whose answer is non-empty; the
   error is not propagated to the caller as a failure. *)
BackendFailureRecovered ==
    (request.op = "rag_query" /\ request.backend.raises)
        => (response.kind = "ok" /\ response.response # <<>>)

(* C9: no request to rag_query, reload_documents or rag_status ends with a
   raw, unconverted exception, also when the one-time initialisation fails. *)
NoRawException == response.kind # "exception"

(* C10: a RAG request whose query text is empty or only whitespace is
   rejected with an invalid-query failure; it never reaches retrieval and
   never produces a normal answer. (Requests on which the initialisation
   itself crashed are set aside.) *)
EmptyQueryRejected ==
    (/\ request.op = "rag_query"
     /\ request.has_query
     /\ Strip(request.query) = <<>>
     /\ response.kind # "exception")
        => response.kind = "validation_error"

-----------------------------------------------------------------------------
(* The endpoint's answers and the store's rebuilds: claims C11 to C20.     *)

(* A rag_query the handler answered normally. *)
RagAnswered == response.kind = "ok" /\ response.op = "rag_query"

(* C11: every successful rag_query response carries the per-source
   relevance scores: one score per returned source document, in the ranked
   order of the returned documents. *)
ResponseCarriesScores ==
    RagAnswered =>
        /\ "scores" \in DOMAIN response
        /\ response.scores =
               retrieve(retriever.documents, request.query, request.top_k).top_scores

(* C12: each completed load or reload discards the old corpus and does not
   merge: afterwards the corpus is exactly one document per readable,
   non-empty file present at that load, in enumeration order, or exactly the
   placeholders when there is none; nothing of the previous corpus survives
   unless its file is still there. (The directory does not change while a
   request is served, so FileDocuments is what the load found.) *)
LoadRebuildsCorpus ==
    [][LoadReturned =>
           retriever'.documents =
               IF FileDocuments = <<>> THEN sample_docs ELSE FileDocuments]_vars

(* A reload answered normally over a directory of two loadable files: the
   corpus is their two documents, in the directory's order. *)
LoadRebuildsCorpusWitness ==
    /\ response.kind = "ok"
    /\ response.op = "reload_documents"
    /\ Len(FileDocuments) >= 2
    /\ FileDocuments[1] # FileDocuments[2]
    /\ response.reloaded = Len(FileDocuments)
    /\ retriever.documents = FileDocuments

(* A reload during which nothing failed outside the files themselves. *)
ReloadOverFiles ==
    /\ request.op = "reload_documents"
    /\ request.fault = NoFault
    /\ response.kind # "exception"

(* C13: a file that cannot be read or decoded is logged and skipped and
   never aborts the load: whichever files are unreadable, load_documents
   returns normally and the files with a document in the corpus are all and
   only the readable ones whose stripped text is non-empty (empty and
   whitespace-only files are skipped too). *)
UnreadableFilesSkipped ==
    ReloadOverFiles =>
        /\ response.kind = "ok"
        /\ \A i \in 1..Len(fs) :
               (\E j \in 1..Len(retriever.documents) :
                    /\ Len(retriever.documents[j]) >= Len(fs[i].name) + 3
                    /\ SubSeq(retriever.documents[j], 1, Len(fs[i].name) + 3)
                           = TaggedDocument(fs[i].name, <<>>))
                   <=> (fs[i].readable /\ Strip(fs[i].content) # <<>>)
        /\ response.reloaded =
               IF \E i \in 1..Len(fs) : fs[i].readable /\ Strip(fs[i].content) # <<>>
               THEN Cardinality({i \in 1..Len(fs) :
                                    fs[i].readable /\ Strip(fs[i].content) # <<>>})
               ELSE Len(sample_docs)

(* A reload answered normally over a directory in which an unreadable file
   follows a loadable one: the corpus is the loadable file's document. *)
UnreadableFilesSkippedWitness ==
    /\ ReloadOverFiles
    /\ response.kind = "ok"
    /\ Len(fs) >= 2
    /\ fs[1].readable /\ Strip(fs[1].content) # <<>>
    /\ ~fs[2].readable
    /\ response.reloaded = 1
    /\ retriever.documents = <<TaggedDocument(fs[1].name, Strip(fs[1].content))>>

(* C14: a query identical to a document's text scores 1.0 against that
   document, and the similarity is symmetric: with the roles of query text
   and document text exchanged the score is the same. *)
SelfScoreIsOne ==
    Retrieved =>
        LET docs == retriever.documents
            q == request.query
        IN  /\ \A i \in 1..Len(docs) :
                   /\ retrieve(<<docs[i]>>, q, 1).top_scores
                          = retrieve(<<q>>, docs[i], 1).top_scores
                   /\ q = docs[i] => Score(WordSet(q), docs[i]) = <<1, 1>>
            /\ (q \in Range(docs) /\ request.top_k >= 1) =>
                   response.top_scores[1] = <<1, 1>>
            /\ (q \in Range(docs) /\ request.top_k >= Len(docs)) =>
                   \E j \in 1..Len(response.top_docs) :
                       response.top_docs[j] = q /\ response.top_scores[j] = <<1, 1>>

(* A retrieval whose query is the text of a document of the corpus: that
   document comes first with score 1, another follows with a lower one. *)
SelfScoreIsOneWitness ==
    /\ Retrieved
    /\ request.query \in Range(retriever.documents)
    /\ Len(response.top_docs) >= 2
    /\ response.top_docs[1] = request.query
    /\ response.top_scores[1] = <<1, 1>>
    /\ Less(response.top_scores[2], <<1, 1>>)

(* A rag_query with a query of no words that reached the handler's body. *)
EmptyQueryServed ==
    /\ request.op = "rag_query"
    /\ request.has_query
    /\ WordSet(request.query) = {}
    /\ response.kind \notin {"exception", "validation_error"}

(* C15: for a query with no words and any corpus load_documents can leave,
   every document scores 0 and retrieve returns an empty result for every
   top_k; rag_query then answers "No relevant documents found" with an
   empty source list. *)
EmptyQueryFindsNothing ==
    EmptyQueryServed =>
        LET docs == retriever.documents
        IN  /\ \A i \in 1..Len(docs) : Score(WordSet(request.query), docs[i]) = Zero
            /\ \A k \in KValues \cup (TopKMin..TopKMax) :
                   retrieve(docs, request.query, k)
                       = [top_docs |-> <<>>, top_scores |-> <<>>]
            /\ response.kind = "ok"
            /\ response.response = NoRelevantDocuments
            /\ response.retrieved_docs = <<>>
            /\ response.context_used = <<>>

(* A whitespace-only query answered "No relevant documents found" over a
   corpus of two file documents. *)
EmptyQueryFindsNothingWitness ==
    /\ EmptyQueryServed
    /\ request.query = QuerySpaces
    /\ Len(FileDocuments) >= 2
    /\ retriever.documents = FileDocuments
    /\ response.kind = "ok"
    /\ response.response = NoRelevantDocuments
    /\ response.retrieved_docs = <<>>

(* C16: with an empty corpus retrieve returns an empty document list and an
   empty score list for every query and every top_k and raises no error; a
   rag_query served over it is answered normally, with no source. *)
EmptyCorpusFindsNothing ==
    (retriever # None /\ retriever.documents = <<>>) =>
        /\ \A query \in Queries \cup ServerQueries :
           \A k \in KValues \cup (TopKMin..TopKMax) :
               retrieve(retriever.documents, query, k)
                   = [top_docs |-> <<>>, top_scores |-> <<>>]
        /\ (/\ request.op = "rag_query"
            /\ response.kind \notin {"exception", "validation_error"})
               => /\ response.kind = "ok"
                  /\ response.retrieved_docs = <<>>
                  /\ response.context_used = <<>>

(* A rag_query for two sources served over the empty corpus an aborted
   reload left, answered normally with no source. *)
EmptyCorpusFindsNothingWitness ==
    /\ RagAnswered
    /\ retriever.documents = <<>>
    /\ request.query = QueryCatMat
    /\ request.top_k = 2
    /\ response.retrieved_docs = <<>>

(* The corpus the retriever was constructed over, read off the directory,
   which no retrieve call changes: one document per loadable file, or the
   placeholders when no file is loadable. *)
RefConstructedCorpus == IF LoadedEntries = <<>> THEN sample_docs ELSE FileDocuments

(* What the reference procedure returns for a corpus, a query and a top_k:
   rank by score with ties in corpus order, drop the zero scores, take the
   first top_k. *)
RefRetrieved(corpus, query, top_k) ==
    LET s == [i \in 1..Len(corpus) |-> Score(WordSet(query), corpus[i])]
        rank == RefRank(s)
        n == Min(top_k, RefPositiveCount(s))
    IN  [top_docs |-> [r \in 1..n |-> corpus[rank[r]]],
         top_scores |-> [r \in 1..n |-> s[rank[r]]]]

(* After any number of retrieve calls the corpus is still the constructed
   one and the last call returned what the reference procedure returns over
   the constructed corpus for that call's arguments alone. *)
RetrieveDependsOnArgumentsOnly ==
    Retrieved =>
        /\ retriever.documents = RefConstructedCorpus
        /\ [top_docs |-> response.top_docs, top_scores |-> response.top_scores]
               = RefRetrieved(RefConstructedCorpus, request.query, request.top_k)

(* C17: retrieve is a pure function of (corpus, query, top_k): any sequence
   of calls leaves the corpus, contents and order, as it was constructed;
   each call returns what its own arguments determine over that corpus,
   whatever calls came earlier; and a call with the arguments of the call
   before it returns the same ordered documents and scores. *)
RetrieveIsPure ==
    /\ []RetrieveDependsOnArgumentsOnly
    /\ [][request'.op = "retrieve" =>
              /\ retriever' = retriever
              /\ (/\ request.op = "retrieve"
                  /\ request'.query = request.query
                  /\ request'.top_k = request.top_k)
                     => /\ response'.top_docs = response.top_docs
                        /\ response'.top_scores = response.top_scores]_vars

(* The last of MaxCalls retrieve calls in a row, returning two documents in
   an order that is not the corpus order. *)
RetrieveIsPureWitness ==
    /\ Retrieved
    /\ request.call = MaxCalls
    /\ Len(response.top_docs) >= 2
    /\ response.top_docs[1] # retriever.documents[1]

(* No generation backend is available: no API key, or the backend's
   initialisation failed. *)
NoBackend == ~is_configured \/ rag_module = None

(* C18: when no generation backend is available the rag_query answer is a
   function of the retrieved context alone: the fixed prefix followed by
   the first 500 characters of the context (and the closing dots) when at
   least one document was retrieved, and the statement that no relevant
   documents were found exactly when the retrieved context is empty. *)
FallbackAnswerIsPreview ==
    (RagAnswered /\ NoBackend) =>
        LET context == response.context_used
            preview == [i \in 1..Min(ContextPreview, Len(context)) |-> context[i]]
        IN  /\ (context = <<>>) <=> (response.retrieved_docs = <<>>)
            /\ (context = <<>>) <=> (response.response = NoRelevantDocuments)
            /\ context # <<>> =>
                   response.response = BasedOnPrefix \o preview \o Ellipsis

(* A rag_query answered without a backend, the key being set and the
   initialisation having failed, from a context longer than the preview:
   the answer stops after the first 500 characters of the context. *)
FallbackAnswerIsPreviewWitness ==
    /\ RagAnswered
    /\ is_configured
    /\ rag_module = None
    /\ Len(response.retrieved_docs) = 2
    /\ Len(response.context_used) > ContextPreview
    /\ Len(response.response) = Len(BasedOnPrefix) + ContextPreview + Len(Ellipsis)

(* C19: whenever a generation backend is configured and initialised,
   rag_query hands it the query and the context and returns its output
   verbatim as the answer, for every query, one whose retrieval result is
   empty included. *)
BackendAnswerVerbatim ==
    (RagAnswered /\ is_configured /\ rag_module # None) =>
        /\ request.backend # BackendUnused
        /\ response.response = request.backend.text

(* The characters of the first n of the documents, added up. *)
RECURSIVE RefTotalLen(_, _)
RefTotalLen(docs, n) == IF n = 0 THEN 0 ELSE Len(docs[n]) + RefTotalLen(docs, n - 1)

(* C20: in every rag_query response the context used is the returned source
   documents joined with a blank line between them, in their ranked order,
   and the empty string when no document is returned: it holds every
   returned document and nothing else. *)
ContextIsJoinedSources ==
    RagAnswered =>
        LET docs == response.retrieved_docs
            context == response.context_used
            \* where document i starts in the context
            start(i) == 1 + (i - 1) * 2 + RefTotalLen(docs, i - 1)
        IN  /\ docs = retrieve(retriever.documents, request.query, request.top_k).top_docs
            /\ Len(context) = RefTotalLen(docs, Len(docs)) + 2 * Max(Len(docs) - 1, 0)
            /\ \A i \in 1..Len(docs) :
                   /\ SubSeq(context, start(i), start(i) + Len(docs[i]) - 1) = docs[i]
                   /\ i < Len(docs) =>
                          SubSeq(context, start(i) + Len(docs[i]),
                                 start(i) + Len(docs[i]) + 1) = <<"\n", "\n">>

(* A rag_query answered from two source documents of different scores: the
   context is the first, a blank line, the second. *)
ContextIsJoinedSourcesWitness ==
    /\ RagAnswered
    /\ Len(response.retrieved_docs) = 2
    /\ response.retrieved_docs[1] # retriever.documents[1]
    /\ response.context_used =
           response.retrieved_docs[1] \o <<"\n", "\n">> \o response.retrieved_docs[2]

-----------------------------------------------------------------------------
(* The endpoint's failures and the other modules: claims C21 to C30.       *)

(* C21: whenever retrieval or generation fails inside rag_query, the
   failure delivered to the caller is a typed failure response that carries
   an error message and the original query text of the request. *)
FailureCarriesQuery ==
    (request.op = "rag_query" /\ response.kind = "http_error") =>
        /\ response.detail # ""
        /\ "query" \in DOMAIN response
        /\ response.query = request.query

(* The keywords of the joke detector, and "the lowercased message contains
   the keyword", stated position by position. *)
RefJokeKeywords ==
    {<<"j", "o", "k", "e">>, <<"f", "u", "n", "n", "y">>, <<"l", "a", "u", "g", "h">>,
     <<"h", "u", "m", "o", "r">>, <<"c", "o", "m", "e", "d", "y">>,
     <<"a", "m", "u", "s", "i", "n", "g">>}

RefHasKeyword(message) ==
    \E kw \in RefJokeKeywords : \E i \in 1..Len(message) :
        /\ i + Len(kw) - 1 <= Len(message)
        /\ \A j \in 1..Len(kw) : LowerChar(message[i + j - 1]) = kw[j]

FallbackAnswered ==
    /\ request.op = "react_chat"
    /\ response.kind = "ok"
    /\ ~(dspy_service.configured /\ dspy_service.react_agent)

(* C22: is_joke_request(message) is true exactly when the lowercased
   message contains one of joke, funny, laugh, humor, comedy, amusing as a
   substring, whatever the letter case: the fallback of react_chat, which
   uses the joke tool exactly when is_joke_request says so, uses it for
   exactly the messages that contain a keyword. *)
JokeRequestIffKeyword ==
    /\ \A m \in Messages : is_joke_request(m) <=> RefHasKeyword(m)
    /\ FallbackAnswered =>
           (response.tool_used = "joke_api" <=> RefHasKeyword(request.message))

JokeRequestIffKeywordWitness ==
    /\ FallbackAnswered
    /\ request.message = MsgUpperJoke
    /\ response.tool_used = "joke_api"

JokeFields == {"setup", "punchline", "type"}

(* The two shapes of a joke result. *)
SuccessShape(result) ==
    /\ result.success
    /\ DOMAIN result = {"success", "joke", "source"}
    /\ DOMAIN result.joke = JokeFields

FailureShape(result) ==
    /\ ~result.success
    /\ DOMAIN result = {"success", "error", "fallback_joke"}
    /\ DOMAIN result.fallback_joke = JokeFields

JokeToolUsed ==
    /\ request.op = "react_chat"
    /\ response.kind = "ok"
    /\ response.tool_used = "joke_api"

(* C23: every call of get_joke_from_api returns success = True with a joke of
   the fixed list that has setup, punchline and type; every result the
   function can build has exactly one of the two shapes (success with a
   joke, failure with an error and a fallback joke), and
   _format_joke_response makes a text of it that shows the joke. *)
JokeResultWellFormed ==
    /\ \A choice \in JokeChoices, raises \in BOOLEAN :
           LET result == get_joke_from_api(choice, raises)
               shown == IF result.success THEN result.joke ELSE result.fallback_joke
               text == format_joke_response(result, "")
           IN  /\ SuccessShape(result) # FailureShape(result)
               /\ \E i \in 1..Len(text) : text[i] = shown.setup
               /\ \E i \in 1..Len(text) : text[i] = shown.punchline
    /\ JokeToolUsed =>
           /\ SuccessShape(response.tool_result)
           /\ \E i \in 1..Len(jokes) : response.tool_result.joke = jokes[i]
           /\ \E i \in 1..Len(response.response) :
                  response.response[i] = response.tool_result.joke.setup

JokeResultWellFormedWitness ==
    /\ JokeToolUsed
    /\ response.tool_result.joke = jokes[Len(jokes)]
    /\ dspy_service.configured
    /\ request.llm.thought # ""

(* C28: a react_chat request with enable_tools = false never uses a tool:
   tool_used and tool_result of its response are null and the joke API is
   not called, configured or not, whatever the message. *)
DisabledToolsNeverUsed ==
    (request.op = "react_chat" /\ response.kind = "ok" /\ ~request.enable_tools) =>
        /\ response.tool_used = "null"
        /\ response.tool_result = None
        /\ \A i \in 1..Len(response.calls) : response.calls[i] # "joke_api"

(* C24: simple_retrieval and DocumentRetriever.retrieve implement the same
   contract: for every query, document list and k >= 1,
   simple_retrieval(query, documents, k) returns the documents and scores
   that retrieve(query, k) returns over a corpus equal to the list, and so
   never a document of score 0. *)
SimpleRetrievalMatchesRetrieve ==
    (response.kind = "simple_retrieved" /\ request.top_k >= 1) =>
        /\ response.top_docs = retrieve(request.documents, request.query, request.top_k).top_docs
        /\ response.top_scores =
               retrieve(request.documents, request.query, request.top_k).top_scores
        /\ \A i \in 1..Len(response.top_scores) : Positive(response.top_scores[i])

(* C25: the initialisation by _ensure_configured happens at most once: from
   a state where _configured is true, every step leaves it true, leaves the
   RAG module as it is (an absent one stays absent: a failed backend
   initialisation is not retried), and changes the retriever's corpus only
   in a reload_documents request. *)
InitialisedAtMostOnce ==
    [][configured =>
           /\ configured'
           /\ rag_module' = rag_module
           /\ retriever' # retriever => request'.op = "reload_documents"]_vars

(* A query answered by a service that was configured by an earlier request
   with a failed backend initialisation: the files have changed since, the
   corpus has not, and the RAG module is still absent. *)
InitialisedAtMostOnceWitness ==
    /\ configured
    /\ is_configured
    /\ rag_module = None
    /\ request.op = "rag_query"
    /\ response.kind = "ok"
    /\ FileDocuments # <<>>
    /\ retriever.documents # FileDocuments

TrainStep == response = None /\ request'.op = "train_model" /\ response' # None

(* The examples the directory holds, counted file by file. *)
RECURSIVE RefExampleCount(_)
RefExampleCount(files) ==
    IF files = <<>> THEN 0
    ELSE (IF Head(files).readable THEN Head(files).rows ELSE 0) + RefExampleCount(Tail(files))

(* C26: a trained model is present exactly when a /train has completed
   successfully: no model is stored at the start, a /predict without a
   stored model fails with status 400 "Model not trained", a /train that
   fails leaves the stored model or its absence as it was, a successful
   /train stores the model compiled from the examples it loaded in place of
   the former one, and no other step changes the stored model. *)
ModelPresentIffTrained ==
    [][/\ (request'.op = "get_prediction" /\ optimized_qa = None) =>
              /\ response'.kind = "http_error"
              /\ response'.status = 400
              /\ response'.detail = "Model not trained. Please call /train endpoint first"
       /\ (TrainStep /\ response'.kind # "ok") => optimized_qa' = optimized_qa
       /\ (TrainStep /\ response'.kind = "ok") =>
              /\ optimized_qa' # None
              /\ Len(optimized_qa'.trainset) = RefExampleCount(train_data.files)
              /\ response'.examples_count = RefExampleCount(train_data.files)
       /\ ~(TrainStep /\ response'.kind = "ok") => optimized_qa' = optimized_qa]_vars

(* A /train that failed while a model trained on other data was stored: the
   stored model is still the earlier one. *)
ModelPresentIffTrainedWitness ==
    /\ request.op = "train_model"
    /\ response.kind = "http_error"
    /\ optimized_qa # None
    /\ Len(optimized_qa.trainset) # RefExampleCount(train_data.files)

(* C27: when load_training_data finds no training examples, /train fails
   with status 404 and the detail "No training data found in train-data
   directory", and the stored model is not changed. *)
NoTrainingDataIs404 ==
    (/\ request.op = "train_model"
     /\ request.fault = NoFault
     /\ RefExampleCount(train_data.files) = 0) =>
        /\ response.kind = "http_error"
        /\ response.status = 404
        /\ response.detail = "No training data found in train-data directory"

NoKeyRequest ==
    /\ ~is_configured
    /\ request.op \in {"question_answering", "chain_of_thought_reasoning", "agent_chat"}

(* C29: with no API key, every request to question_answering,
   chain_of_thought_reasoning and agent_chat gets a normal response whose
   text is "Service not configured. Please set GROQ_API_KEY." and which
   echoes the request's question or message; no DSPy module is created or
   called in any such request, however many are made. *)
NoKeyAnswersNotConfigured ==
    /\ ~is_configured =>
           /\ ~qa.question_module
           /\ ~qa.reasoning_module
           /\ ~agent.agent_module
    /\ NoKeyRequest =>
           /\ response.kind = "ok"
           /\ response.calls = <<>>
           /\ IF request.op = "agent_chat"
              THEN /\ response.response = "Service not configured. Please set GROQ_API_KEY."
                   /\ response.message = request.message
              ELSE /\ response.answer = "Service not configured. Please set GROQ_API_KEY."
                   /\ response.question = request.question

(* A reasoning request answered without a key after the question and agent
   endpoints have both been used. *)
NoKeyAnswersNotConfiguredWitness ==
    /\ NoKeyRequest
    /\ request.op = "chain_of_thought_reasoning"
    /\ qa.configured
    /\ agent.configured
    /\ response.kind = "ok"

(* C30: retrieve never returns more than max(k, 0) results for any integer
   k, zero and negative k included: for k <= 0 the result is empty. *)
AtMostKResults ==
    Retrieved =>
        /\ Len(response.top_docs) <= Max(request.top_k, 0)
        /\ Len(response.top_scores) <= Max(request.top_k, 0)

=============================================================================
